---------------------------- MODULE Spec2Model ----------------------------
(***************************************************************************)
(* goimagetool: the in-memory filesystem (memfs) and the native ext2       *)
(* codec (internal/fs/ext2/ext2.go): Store synthesises a single-group      *)
(* image from a memfs tree, Load decodes an image back into a tree.        *)
(*                                                                         *)
(* Strings are sequences of byte values ("/" is 47, "." is 46).  An image  *)
(* is kept by region: the superblock, the group descriptor and the inode   *)
(* table as decoded little-endian fields, the bitmaps as bit sets, and     *)
(* every block after the inode table as its bytes: the sequence of the     *)
(* bytes up to the last one written, the rest of the block being the zero  *)
(* bytes make([]byte, n) leaves there.  A byte buffer that spans blocks (a *)
(* directory payload, the data of a file) is the sequence of its           *)
(* block-sized pieces, each kept the same way.                             *)
(***************************************************************************)
EXTENDS Integers, Sequences, FiniteSets, TLC

(***************************************************************************)
(* Program constants.                                                      *)
(***************************************************************************)
ext2Magic == 61267
defaultBlockSize == 1024
inodeSize == 128
modeIFIFO == 4096
modeIFCHR == 8192
modeIFDIR == 16384
modeIFBLK == 24576
modeIFREG == 32768
modeIFLNK == 40960
ModeFIFO == 4096
ModeChar == 8192
ModeDir == 16384
ModeBlock == 24576
ModeFile == 32768
ModeLink == 40960

(***************************************************************************)
(* Bounds of the model.                                                    *)
(***************************************************************************)
MaxNodes == 3
MaxBigNodes == 5
MaxWalkDepth == 3
MaxSmallBlocks == 24
PlanSpan == 3
CapSpan == 60
MaxDamageNodes == 2

(***************************************************************************)
(* Machine arithmetic.                                                     *)
(***************************************************************************)
RECURSIVE BitAnd(_, _)
BitAnd(a, b) ==
  IF a = 0 \/ b = 0 THEN 0
  ELSE (a % 2) * (b % 2) + 2 * BitAnd(a \div 2, b \div 2)

RECURSIVE BitOr(_, _)
BitOr(a, b) ==
  IF a = 0 THEN b
  ELSE IF b = 0 THEN a
  ELSE (IF (a % 2) + (b % 2) > 0 THEN 1 ELSE 0) + 2 * BitOr(a \div 2, b \div 2)

U8(x) == x % 256
U16(x) == x % 65536
\* uint32(x).  TLC's integers end at 2^31 - 1; every value of the model
\* stays within 0 .. 2^31 - 1, where the conversion changes nothing (a value
\* outside has no image here, and evaluating it is an error).
U32(x) == CHOOSE y \in {x} : y >= 0
Shl(x, n) == U32(x * (2 ^ n))

ceilDiv(x, y) == IF x <= 0 THEN 0 ELSE (x + y - 1) \div y

(***************************************************************************)
(* Strings as byte sequences.                                              *)
(***************************************************************************)
SlashStr == <<47>>
DotStr == <<46>>
DotDotStr == <<46, 46>>

\* Go's string "<": byte-wise lexicographic order, decided at the first place
\* where the two differ, or by length when one is a prefix of the other.
StrLess(a, b) ==
  LET diff == {i \in 1..(IF Len(a) < Len(b) THEN Len(a) ELSE Len(b)) : a[i] # b[i]}
  IN IF diff = {} THEN Len(a) < Len(b)
     ELSE \E i \in diff : (\A j \in diff : i <= j) /\ a[i] < b[i]

HasPrefix(s, pre) == Len(pre) <= Len(s) /\ SubSeq(s, 1, Len(pre)) = pre

\* The keys in descending order: the order sort.Strings does not give.
RECURSIVE SortStringsDescending(_)
SortStringsDescending(S) ==
  IF S = {} THEN <<>>
  ELSE LET m == CHOOSE x \in S : \A y \in S \ {x} : StrLess(y, x)
       IN <<m>> \o SortStringsDescending(S \ {m})

RECURSIVE SortStrings(_)
SortStrings(S) ==
  IF S = {} THEN <<>>
  ELSE LET m == CHOOSE x \in S : \A y \in S \ {x} : StrLess(x, y)
       IN <<m>> \o SortStrings(S \ {m})

\* strings.Split(s, "/"): the pieces between consecutive slashes.
Split(s) ==
  LET cuts == {i \in 1..Len(s) : <<s[i]>> = SlashStr}
      cut(k) == IF k = 0 THEN 0
                ELSE IF k > Cardinality(cuts) THEN Len(s) + 1
                ELSE CHOOSE i \in cuts : Cardinality({j \in cuts : j < i}) = k - 1
  IN [k \in 1..(Cardinality(cuts) + 1) |-> SubSeq(s, cut(k - 1) + 1, cut(k) - 1)]

RECURSIVE CleanStack(_, _, _)
CleanStack(parts, i, st) ==
  IF i > Len(parts) THEN st
  ELSE LET c == parts[i] IN
       IF c = <<>> \/ c = DotStr THEN CleanStack(parts, i + 1, st)
       ELSE IF c = DotDotStr
            THEN CleanStack(parts, i + 1,
                            IF st = <<>> THEN st ELSE SubSeq(st, 1, Len(st) - 1))
            ELSE CleanStack(parts, i + 1, Append(st, c))

RECURSIVE JoinRooted(_)
JoinRooted(st) ==
  IF st = <<>> THEN <<>> ELSE SlashStr \o Head(st) \o JoinRooted(Tail(st))

\* path.Clean of a rooted path: empty and "." elements dropped, ".." resolved
\* (and dropped at the root), no trailing slash.
pathClean(p) ==
  LET st == CleanStack(Split(p), 1, <<>>)
  IN IF st = <<>> THEN SlashStr ELSE JoinRooted(st)

LastSlash(p) == CHOOSE i \in 1..Len(p) :
                  <<p[i]>> = SlashStr /\ \A j \in (i + 1)..Len(p) : <<p[j]>> # SlashStr

\* path.Dir of a rooted path: the path up to its last slash, cleaned.
pathDir(p) == pathClean(SubSeq(p, 1, LastSlash(p)))

\* path.Base of a clean rooted path.
pathBase(p) == IF p = SlashStr THEN SlashStr ELSE SubSeq(p, LastSlash(p) + 1, Len(p))

\* path.Join(parent, name) with a rooted parent.
pathJoin(parent, name) ==
  IF name = <<>> THEN pathClean(parent) ELSE pathClean(parent \o SlashStr \o name)

(***************************************************************************)
(* memfs: a map from clean absolute path to Entry.                         *)
(***************************************************************************)
Entry(name, mode, uid, gid, mt, data, target, maj, min) ==
  [Name |-> name, Mode |-> mode, UID |-> uid, GID |-> gid, MTime |-> mt,
   Data |-> data, Target |-> target, RdevMajor |-> maj, RdevMinor |-> min]

MapPut(m, k, v) == [x \in (DOMAIN m) \cup {k} |-> IF x = k THEN v ELSE m[x]]

New == [p \in {SlashStr} |-> Entry(SlashStr, BitOr(ModeDir, 493), 0, 0, 0, <<>>, <<>>, 0, 0)]

clean(p) ==
  IF p = <<>> THEN SlashStr
  ELSE LET q == IF HasPrefix(p, SlashStr) THEN p ELSE SlashStr \o p
       IN pathClean(q)

RECURSIVE MkdirParts(_, _, _, _, _, _, _)
MkdirParts(m, parts, i, cur, uid, gid, mt) ==
  IF i > Len(parts) THEN m
  ELSE LET c == cur \o SlashStr \o parts[i]
           m2 == IF c \in DOMAIN m THEN m
                 ELSE MapPut(m, c, Entry(c, BitOr(ModeDir, 493), uid, gid, mt,
                                         <<>>, <<>>, 0, 0))
       IN MkdirParts(m2, parts, i + 1, c, uid, gid, mt)

MkdirAll(m, dir, uid, gid, mt) ==
  MkdirParts(m, Tail(Split(clean(dir))), 1, <<>>, uid, gid, mt)

PutFile(m, path, data, mode, uid, gid, mt) ==
  LET p == clean(path)
      m2 == MkdirAll(m, pathDir(p), uid, gid, mt)
      md == IF BitAnd(mode, ModeFile) = 0 /\ BitAnd(mode, ModeDir) = 0
               /\ BitAnd(mode, ModeLink) = 0
            THEN BitOr(mode, ModeFile) ELSE mode
  IN MapPut(m2, p, Entry(p, md, uid, gid, mt, data, <<>>, 0, 0))

PutDirMode(m, path, mode, uid, gid, mt) ==
  LET p == clean(path)
      m2 == MkdirAll(m, p, uid, gid, mt)
      md == IF BitAnd(mode, ModeDir) = 0 THEN BitOr(mode, ModeDir) ELSE mode
  IN MapPut(m2, p, Entry(p, md, uid, gid, mt, <<>>, <<>>, 0, 0))

PutDir(m, path, uid, gid, mt) == PutDirMode(m, path, BitOr(ModeDir, 493), uid, gid, mt)

PutSymlink(m, dst, target, uid, gid, mt) ==
  LET p == clean(dst)
      m2 == MkdirAll(m, pathDir(p), uid, gid, mt)
  IN MapPut(m2, p, Entry(p, BitOr(ModeLink, 511), uid, gid, mt, <<>>, target, 0, 0))

PutNode(m, dst, typ, perm, uid, gid, major, minor, mt) ==
  LET p == clean(dst)
      m2 == MkdirAll(m, pathDir(p), uid, gid, mt)
  IN MapPut(m2, p, Entry(p, BitOr(typ, BitAnd(perm, 4095)), uid, gid, mt,
                         <<>>, <<>>, major, minor))

\* Remove by bare prefix: every key that starts with p goes, /ab with /a.
RemoveByPrefix(m, path) ==
  LET p == clean(path)
  IN IF p = SlashStr THEN [ok |-> FALSE, m |-> m]
     ELSE [ok |-> TRUE, m |-> [k \in {x \in DOMAIN m : ~HasPrefix(x, p)} |-> m[k]]]

\* Remove of the one node: its descendants are left in the map.
RemoveNodeOnly(m, path) ==
  LET p == clean(path)
  IN IF p = SlashStr THEN [ok |-> FALSE, m |-> m]
     ELSE [ok |-> TRUE, m |-> [k \in DOMAIN m \ {p} |-> m[k]]]

\* Remove: ok is FALSE when the path cleans to "/" (the error return).
Remove(m, path) ==
  LET p == clean(path)
  IN IF p = SlashStr THEN [ok |-> FALSE, m |-> m]
     ELSE [ok |-> TRUE,
           m |-> [k \in {x \in DOMAIN m : ~(x = p \/ HasPrefix(x, p \o SlashStr))}
                    |-> m[k]]]

\* WriteFile: the data of an entry with the ModeFile bit is replaced; ok is
\* FALSE for the "not a file" error.
WriteFile(m, path, data) ==
  LET p == clean(path)
  IN IF p \in DOMAIN m /\ BitAnd(m[p].Mode, ModeFile) # 0
     THEN [ok |-> TRUE, m |-> [m EXCEPT ![p].Data = data]]
     ELSE [ok |-> FALSE, m |-> m]

(***************************************************************************)
(* Little-endian encoding (encoding/binary) and block bytes.               *)
(***************************************************************************)
LE16(x) == <<x % 256, (x \div 256) % 256>>
LE32(x) == <<x % 256, (x \div 256) % 256, (x \div 65536) % 256, (x \div 16777216) % 256>>

Zeros(n) == [i \in 1..n |-> 0]

\* Byte i (1-based) of a byte array whose stored prefix is b; the rest is zero.
ByteAt(b, i) == IF i <= Len(b) THEN b[i] ELSE 0

\* The little-endian uint32 at byte offset off (0-based) of b.
Word32At(b, off) ==
  ByteAt(b, off + 1) + 256 * ByteAt(b, off + 2) + 65536 * ByteAt(b, off + 3)
    + 16777216 * ByteAt(b, off + 4)

Word16At(b, off) == ByteAt(b, off + 1) + 256 * ByteAt(b, off + 2)

WordsToBytes(ws) ==
  [i \in 1..(4 * Len(ws)) |-> LE32(ws[((i - 1) \div 4) + 1])[((i - 1) % 4) + 1]]

(***************************************************************************)
(* Inline symlinks: the target bytes packed into inode.Block[0..14].       *)
(***************************************************************************)
inlineSymlinkPack(target) ==
  LET buf == [i \in 1..60 |-> IF i <= Len(target) THEN target[i] ELSE 0]
  IN [i \in 1..15 |->
        U32(buf[4 * (i - 1) + 1] + Shl(buf[4 * (i - 1) + 2], 8)
            + Shl(buf[4 * (i - 1) + 3], 16) + Shl(buf[4 * (i - 1) + 4], 24))]

inlineSymlinkFromInode(ino) ==
  LET raw == [k \in 1..60 |->
                LET b == ino.Block[((k - 1) \div 4) + 1]
                IN U8(b \div (2 ^ (8 * ((k - 1) % 4))))]
      n == IF ino.Size > 60 THEN 60 ELSE ino.Size
  IN SubSeq(raw, 1, n)

(***************************************************************************)
(* Store: snapshot, inode numbering, directory payloads.                   *)
(***************************************************************************)
\* A fileRec whose owner ids are cut off at 65535 instead of wrapping round.
fileRecClampedIds(e) ==
  LET isDir == BitAnd(e.Mode, ModeDir) # 0
      isSymlink == BitAnd(e.Mode, ModeLink) # 0
      isChar == BitAnd(e.Mode, ModeChar) # 0
      isBlock == BitAnd(e.Mode, ModeBlock) # 0
      isFIFO == BitAnd(e.Mode, ModeFIFO) # 0
  IN [Inode |-> 0, Path |-> e.Name, IsDir |-> isDir, MTime |-> e.MTime,
      Mode |-> U16(BitAnd(e.Mode, 65535)),
      UID |-> IF e.UID > 65535 THEN 65535 ELSE e.UID,
      GID |-> IF e.GID > 65535 THEN 65535 ELSE e.GID,
      IsSymlink |-> isSymlink, IsChar |-> isChar, IsBlock |-> isBlock,
      IsFIFO |-> isFIFO, Target |-> e.Target,
      RdevMaj |-> e.RdevMajor, RdevMin |-> e.RdevMinor,
      Data |-> IF ~isDir /\ ~isSymlink /\ ~isChar /\ ~isBlock /\ ~isFIFO
               THEN e.Data ELSE <<>>]

\* One fileRec of the snapshot (Inode still 0).
fileRecOf(e) ==
  LET isDir == BitAnd(e.Mode, ModeDir) # 0
      isSymlink == BitAnd(e.Mode, ModeLink) # 0
      isChar == BitAnd(e.Mode, ModeChar) # 0
      isBlock == BitAnd(e.Mode, ModeBlock) # 0
      isFIFO == BitAnd(e.Mode, ModeFIFO) # 0
  IN [Inode |-> 0, Path |-> e.Name, IsDir |-> isDir, MTime |-> e.MTime,
      Mode |-> U16(BitAnd(e.Mode, 65535)), UID |-> U16(e.UID), GID |-> U16(e.GID),
      IsSymlink |-> isSymlink, IsChar |-> isChar, IsBlock |-> isBlock,
      IsFIFO |-> isFIFO, Target |-> e.Target,
      RdevMaj |-> e.RdevMajor, RdevMin |-> e.RdevMinor,
      Data |-> IF ~isDir /\ ~isSymlink /\ ~isChar /\ ~isBlock /\ ~isFIFO
               THEN e.Data ELSE <<>>]

\* The records of every entry but "/", in sorted key order.
snapshotRecs(m) ==
  LET keys == SortStrings(DOMAIN m)
      recs == [i \in 1..Len(keys) |-> fileRecOf(m[keys[i]])]
  IN SelectSeq(recs, LAMBDA r : r.Path # SlashStr)

\* The orders in which "for k := range ss" can hand out the keys of the map:
\* every arrangement of them.
rangeOrders(m) ==
  {o \in [1..Cardinality(DOMAIN m) -> DOMAIN m] :
     \A i, j \in 1..Cardinality(DOMAIN m) : i # j => o[i] # o[j]}

\* The keys left in the order the map gave them.
keysAsRanged(keys) == keys

\* sort.Strings(keys) on the slice the range loop filled.
RECURSIVE sortKeys(_)
sortKeys(keys) ==
  IF keys = <<>> THEN <<>>
  ELSE LET rest == sortKeys(Tail(keys))
           n == Cardinality({i \in 1..Len(rest) : StrLess(rest[i], Head(keys))})
       IN SubSeq(rest, 1, n) \o <<Head(keys)>> \o SubSeq(rest, n + 1, Len(rest))

\* The snapshot loop when the map was ranged over in the given order.
snapshotRanging(m, order) ==
  LET keys == sortKeys(order)
      recs == [i \in 1..Len(keys) |-> fileRecOf(m[keys[i]])]
  IN SelectSeq(recs, LAMBDA r : r.Path # SlashStr)

\* Inode numbering: directories first, then the others, from 3.
numberInodes(recs) ==
  LET nDirs == Cardinality({i \in 1..Len(recs) : recs[i].IsDir})
      dirsBefore(i) == Cardinality({j \in 1..(i - 1) : recs[j].IsDir})
      othersBefore(i) == Cardinality({j \in 1..(i - 1) : ~recs[j].IsDir})
  IN [i \in 1..Len(recs) |->
        [recs[i] EXCEPT !.Inode = IF recs[i].IsDir THEN 3 + dirsBefore(i)
                                  ELSE 3 + nDirs + othersBefore(i)]]

\* children[dirPath], sorted by Path.
childrenOf(all, dirPath) ==
  LET idx == {i \in 1..Len(all) : pathDir(all[i].Path) = dirPath}
      names == SortStrings({all[i].Path : i \in idx})
  IN [k \in 1..Len(names) |-> all[CHOOSE i \in idx : all[i].Path = names[k]]]

\* The file-type tag of a directory entry.
fileTypeTag(ch) ==
  IF ch.IsDir THEN 2
  ELSE IF ch.IsSymlink THEN 7
  ELSE IF ch.IsChar THEN 3
  ELSE IF ch.IsBlock THEN 4
  ELSE IF ch.IsFIFO THEN 5
  ELSE 1

\* The entry list of a directory: ".", "..", the children.
dirEntryList(all, selfIno, dirPath) ==
  LET parent == pathDir(dirPath)
      hits == {i \in 1..Len(all) : all[i].Path = parent}
      parIno == IF dirPath # SlashStr /\ hits # {}
                THEN all[CHOOSE i \in hits : \A j \in hits : i <= j].Inode
                ELSE 2
      chs == childrenOf(all, dirPath)
  IN <<[ino |-> selfIno, ft |-> 2, nm |-> DotStr],
       [ino |-> parIno, ft |-> 2, nm |-> DotDotStr]>>
     \o [k \in 1..Len(chs) |->
           [ino |-> chs[k].Inode, ft |-> fileTypeTag(chs[k]), nm |-> pathBase(chs[k].Path)]]

\* The aligned record length of a name of nl bytes.
recLen(nl) == LET rec == 8 + nl IN IF rec % 4 # 0 THEN rec + 4 - (rec % 4) ELSE rec

\* The packing loop of buildDirPayload from entry idx on.  The output buffer
\* is held by block: done are the blocks already full, cur the bytes of the
\* block being filled, blockPos the write position in it.  Zero bytes written
\* up to the end of a block are the block's implicit zero tail.
RECURSIVE packEntries(_, _, _, _, _, _)
packEntries(list, idx, done, cur, blockPos, bsz) ==
  IF idx > Len(list)
  THEN IF blockPos # 0 THEN Append(done, cur) ELSE done
  ELSE LET e == list[idx]
           nl == Len(e.nm)
           rec == recLen(nl)
           cross == blockPos + rec > bsz /\ blockPos > 0
           done1 == IF cross THEN Append(done, cur) ELSE done
           cur1 == IF cross THEN <<>> ELSE cur
           pos1 == IF cross THEN 0 ELSE blockPos
           useRec == IF pos1 + rec = bsz \/ idx = Len(list) THEN bsz - pos1 ELSE rec
           hdr == LE32(e.ino) \o LE16(U16(useRec)) \o <<U8(nl), e.ft>>
           full == pos1 + useRec = bsz
           cur2 == IF full THEN cur1 \o hdr \o e.nm
                   ELSE cur1 \o hdr \o e.nm \o Zeros(useRec - (8 + nl))
       IN IF full
          THEN packEntries(list, idx + 1, Append(done1, cur2), <<>>, 0, bsz)
          ELSE packEntries(list, idx + 1, done1, cur2, pos1 + useRec, bsz)

\* The payload of a directory, as its blocks; its length is a whole number
\* of blocks.
buildDirPayload(all, selfIno, dirPath, bsz) ==
  packEntries(dirEntryList(all, selfIno, dirPath), 1, <<>>, <<>>, 0, bsz)

\* The bsz-sized pieces of a byte string.
chunksOf(data, bsz) ==
  [k \in 1..ceilDiv(Len(data), bsz) |->
     SubSeq(data, (k - 1) * bsz + 1, IF k * bsz < Len(data) THEN k * bsz ELSE Len(data))]

(***************************************************************************)
(* Store: the planner.                                                     *)
(***************************************************************************)
blocksFor(n, bsz) == ceilDiv(n, bsz)

Min(a, b) == IF a < b THEN a ELSE b

\* A planner that gives the double-indirect level one level-1 block too few
\* whenever the level is not filled exactly.
planForDataBlocksFloor(n, ptrsPer) ==
  LET empty == [data |-> <<>>, ind1 |-> 0, ind2Root |-> 0, ind2L1 |-> <<>>,
                ind3Root |-> 0, ind3L2 |-> <<>>, ind3L1 |-> <<>>]
  IN IF n <= 12 THEN empty
     ELSE IF n <= 12 + ptrsPer THEN [empty EXCEPT !.ind1 = -1]
     ELSE [empty EXCEPT !.ind1 = -1, !.ind2Root = -1,
                        !.ind2L1 = Zeros(Min(n - 12 - ptrsPer, ptrsPer * ptrsPer)
                                           \div ptrsPer)]

\* The pointer-block plan of a node of n data blocks: -1 marks a pointer
\* block still to be allocated, 0 one that is not needed.
planForDataBlocks(n, ptrsPer) ==
  LET empty == [data |-> <<>>, ind1 |-> 0, ind2Root |-> 0, ind2L1 |-> <<>>,
                ind3Root |-> 0, ind3L2 |-> <<>>, ind3L1 |-> <<>>]
  IN IF n <= 12 THEN empty
     ELSE LET rem0 == n - 12
              use1 == Min(rem0, ptrsPer)
              p1 == IF rem0 > 0 /\ use1 > 0 THEN [empty EXCEPT !.ind1 = -1] ELSE empty
              rem1 == IF rem0 > 0 /\ use1 > 0 THEN rem0 - use1 ELSE rem0
              use2 == Min(rem1, ptrsPer * ptrsPer)
              p2 == IF rem1 > 0 /\ use2 > 0
                    THEN [p1 EXCEPT !.ind2Root = -1,
                                    !.ind2L1 = Zeros(ceilDiv(use2, ptrsPer))]
                    ELSE p1
              rem2 == IF rem1 > 0 /\ use2 > 0 THEN rem1 - use2 ELSE rem1
              use3 == Min(rem2, ptrsPer * ptrsPer * ptrsPer)
          IN IF rem2 > 0 /\ use3 > 0
             THEN [p2 EXCEPT !.ind3Root = -1,
                             !.ind3L2 = Zeros(ceilDiv(use3, ptrsPer * ptrsPer)),
                             !.ind3L1 = Zeros(ceilDiv(use3, ptrsPer))]
             ELSE p2

countPtr(pl) ==
  (IF pl.ind1 = -1 THEN 1 ELSE 0)
  + (IF pl.ind2Root = -1 THEN 1 + Len(pl.ind2L1) ELSE 0)
  + (IF pl.ind3Root = -1 THEN 1 + Len(pl.ind3L2) + Len(pl.ind3L1) ELSE 0)

\* A block count that sends a symlink target of 60 bytes to a data block.
nodeBlocksBelow60(r, payloadLen, bsz) ==
  IF r.IsDir THEN blocksFor(payloadLen, bsz)
  ELSE IF r.IsSymlink
       THEN IF Len(r.Target) < 60 THEN 0 ELSE blocksFor(Len(r.Target), bsz)
  ELSE IF r.IsChar \/ r.IsBlock \/ r.IsFIFO THEN 0
  ELSE blocksFor(Len(r.Data), bsz)

\* The number of data blocks of a node whose directory payload (if it is
\* taken for a directory) has payloadLen bytes.
nodeBlocks(r, payloadLen, bsz) ==
  IF r.IsDir THEN blocksFor(payloadLen, bsz)
  ELSE IF r.IsSymlink
       THEN IF Len(r.Target) <= 60 THEN 0 ELSE blocksFor(Len(r.Target), bsz)
  ELSE IF r.IsChar \/ r.IsBlock \/ r.IsFIFO THEN 0
  ELSE blocksFor(Len(r.Data), bsz)

\* Blocks one further on: the first free block is left out.
allocDataFromNext(cur, n) == [i \in 1..n |-> cur + i]

\* n consecutive block numbers from cur.
allocData(cur, n) == [i \in 1..n |-> cur + i - 1]

\* The single-indirect block is given the block at cur and cur is not moved
\* on: the next allocation hands the same block out again.
allocPtrSharing(pl, cur) ==
  [pl |-> IF pl.ind1 = -1 THEN [pl EXCEPT !.ind1 = cur] ELSE pl, cur |-> cur]

\* Gives every pending pointer block of pl a block number, from cur on.
allocPtr(pl, cur) ==
  LET c1 == IF pl.ind1 = -1 THEN cur + 1 ELSE cur
      a1 == IF pl.ind1 = -1 THEN [pl EXCEPT !.ind1 = cur] ELSE pl
      n2 == Len(pl.ind2L1)
      c2 == IF pl.ind2Root = -1 THEN c1 + 1 + n2 ELSE c1
      a2 == IF pl.ind2Root = -1
            THEN [a1 EXCEPT !.ind2Root = c1, !.ind2L1 = [i \in 1..n2 |-> c1 + i]]
            ELSE a1
      n3 == Len(pl.ind3L2)
      m3 == Len(pl.ind3L1)
      c3 == IF pl.ind3Root = -1 THEN c2 + 1 + n3 + m3 ELSE c2
      a3 == IF pl.ind3Root = -1
            THEN [a2 EXCEPT !.ind3Root = c2,
                            !.ind3L2 = [i \in 1..n3 |-> c2 + i],
                            !.ind3L1 = [i \in 1..m3 |-> c2 + n3 + i]]
            ELSE a2
  IN [pl |-> a3, cur |-> c3]

\* The allocation loop over all: nblk[i] is node i's data-block count; the
\* result is every node's plan with real block numbers, and the next free block.
RECURSIVE allocateAll(_, _, _, _, _)
allocateAll(nblk, ptrsPer, i, cur, plans) ==
  IF i > Len(nblk) THEN [plans |-> plans, cur |-> cur]
  ELSE LET n == nblk[i]
           pl0 == planForDataBlocks(n, ptrsPer)
           pl1 == IF n > 0 THEN [pl0 EXCEPT !.data = allocData(cur, n)] ELSE pl0
           ap == allocPtr(pl1, cur + n)
       IN allocateAll(nblk, ptrsPer, i + 1, ap.cur, Append(plans, ap.pl))

(***************************************************************************)
(* Store: the serializer.                                                  *)
(***************************************************************************)
ZeroBlock15 == [i \in 1..15 |-> 0]

ZeroInode ==
  [Mode |-> 0, UID |-> 0, Size |-> 0, ATime |-> 0, CTime |-> 0, MTime |-> 0,
   DTime |-> 0, GID |-> 0, LinksCount |-> 0, Blocks |-> 0, Flags |-> 0,
   Block |-> ZeroBlock15]

\* writeBlocks: block list[k] receives the k-th bsz-sized piece of the data.
writeBlocks(list, pieces) ==
  [bn \in {list[k] : k \in 1..Min(Len(list), Len(pieces))} |->
     pieces[CHOOSE k \in 1..Len(list) : list[k] = bn]]

\* Elements from+1 .. from+n (at most) of a list, 0-based start.
Slice(list, from, n) == SubSeq(list, from + 1, Min(from + n, Len(list)))

\* writePointers: the inode's 15 block slots and the contents (as uint32
\* words) of the pointer blocks it fills.
writePointers(pl, dataBlocks, ptrsPer) ==
  LET len == Len(dataBlocks)
      d == Min(len, 12)
      direct == [i \in 1..15 |-> IF i <= d THEN U32(dataBlocks[i]) ELSE 0]
      more0 == d < len
      \* single indirect
      do1 == more0 /\ pl.ind1 > 0
      n1 == IF do1 THEN Min(len - d, ptrsPer) ELSE 0
      idx1 == d + n1
      w1 == IF do1 THEN [b \in {pl.ind1} |-> Slice(dataBlocks, d, n1)] ELSE <<>>
      more1 == more0 /\ idx1 < len
      \* double indirect
      do2 == more1 /\ pl.ind2Root > 0
      w2root == IF do2 THEN [b \in {pl.ind2Root} |-> Slice(pl.ind2L1, 0, ptrsPer)]
                ELSE <<>>
      w2l1 == IF do2
              THEN [b \in {pl.ind2L1[i] : i \in {i \in 1..Len(pl.ind2L1) :
                                                   idx1 + (i - 1) * ptrsPer < len}} |->
                      LET i == CHOOSE i \in 1..Len(pl.ind2L1) : pl.ind2L1[i] = b
                      IN Slice(dataBlocks, idx1 + (i - 1) * ptrsPer, ptrsPer)]
              ELSE <<>>
      idx2 == IF do2 THEN Min(len, idx1 + Len(pl.ind2L1) * ptrsPer) ELSE idx1
      more2 == more1 /\ idx2 < len
      \* triple indirect
      do3 == more2 /\ pl.ind3Root > 0
      w3root == IF do3 THEN [b \in {pl.ind3Root} |-> Slice(pl.ind3L2, 0, ptrsPer)]
                ELSE <<>>
      w3l2 == IF do3
              THEN [b \in {pl.ind3L2[i] : i \in {i \in 1..Len(pl.ind3L2) :
                              i = 1 \/ idx2 + (i - 1) * ptrsPer * ptrsPer < len}} |->
                      LET i == CHOOSE i \in 1..Len(pl.ind3L2) : pl.ind3L2[i] = b
                      IN Slice(pl.ind3L1, (i - 1) * ptrsPer, ptrsPer)]
              ELSE <<>>
      w3l1 == IF do3
              THEN [b \in {pl.ind3L1[t] : t \in {t \in 1..Len(pl.ind3L1) :
                              t = 1 \/ idx2 + (t - 1) * ptrsPer < len}} |->
                      LET t == CHOOSE t \in 1..Len(pl.ind3L1) : pl.ind3L1[t] = b
                      IN Slice(dataBlocks, idx2 + (t - 1) * ptrsPer, ptrsPer)]
              ELSE <<>>
      blk == [i \in 1..15 |->
                IF i = 13 /\ do1 THEN U32(pl.ind1)
                ELSE IF i = 14 /\ do2 THEN U32(pl.ind2Root)
                ELSE IF i = 15 /\ do3 THEN U32(pl.ind3Root)
                ELSE direct[i]]
  IN [Block |-> blk, ptrBlocks |-> w1 @@ w2root @@ w2l1 @@ w3root @@ w3l2 @@ w3l1]

\* dirLinks: 2 + the children recorded as directories.
dirLinks(all, r) ==
  U16(2 + Cardinality({i \in 1..Len(all) : pathDir(all[i].Path) = r.Path /\ all[i].IsDir}))

\* The inode Store writes for record r with plan pl; payload is r's directory
\* payload when r is taken for a directory.
inodeBase(r) ==
  [ZeroInode EXCEPT !.UID = r.UID, !.GID = r.GID, !.ATime = U32(r.MTime),
                    !.CTime = U32(r.MTime), !.MTime = U32(r.MTime)]

inodeFor(all, r, base, payload, ptrBlock, bsz) ==
  IF r.IsDir
  THEN [base EXCEPT !.Mode = U16(BitOr(BitAnd(r.Mode, 65535), modeIFDIR)),
                    !.Size = U32(Len(payload) * bsz),
                    !.LinksCount = dirLinks(all, r),
                    !.Blocks = U32(ceilDiv(Len(payload) * bsz, 512)),
                    !.Block = ptrBlock]
  ELSE IF r.IsSymlink
  THEN IF Len(r.Target) <= 60
       THEN [base EXCEPT !.Mode = U16(BitOr(BitAnd(r.Mode, 65535), modeIFLNK)),
                         !.Size = U32(Len(r.Target)),
                         !.LinksCount = 1,
                         !.Blocks = 0,
                         !.Block = inlineSymlinkPack(r.Target)]
       ELSE [base EXCEPT !.Mode = U16(BitOr(BitAnd(r.Mode, 65535), modeIFLNK)),
                         !.Size = U32(Len(r.Target)),
                         !.LinksCount = 1,
                         !.Blocks = U32(ceilDiv(Len(r.Target), 512)),
                         !.Block = ptrBlock]
  ELSE IF r.IsChar \/ r.IsBlock \/ r.IsFIFO
  THEN [base EXCEPT !.Mode = U16(BitOr(BitAnd(r.Mode, 65535),
                                       IF r.IsChar THEN modeIFCHR
                                       ELSE IF r.IsBlock THEN modeIFBLK ELSE modeIFIFO)),
                    !.Size = 0, !.LinksCount = 1, !.Blocks = 0,
                    !.Block = [ZeroBlock15 EXCEPT ![1] =
                                 IF r.IsChar \/ r.IsBlock
                                 THEN U32(BitOr(Shl(r.RdevMaj, 8), BitAnd(r.RdevMin, 255)))
                                 ELSE 0]]
  ELSE [base EXCEPT !.Mode = U16(BitOr(BitAnd(r.Mode, 65535), modeIFREG)),
                    !.Size = U32(Len(r.Data)),
                    !.LinksCount = 1,
                    !.Blocks = U32(ceilDiv(Len(r.Data), 512)),
                    !.Block = ptrBlock]

\* The blocks Store fills for record r: its data (or payload) blocks and its
\* pointer blocks ptrBytes, each as bytes.
blocksFor_r(r, pl, payload, ptrBytes, bsz) ==
  IF r.IsDir THEN writeBlocks(pl.data, payload) @@ ptrBytes
  ELSE IF r.IsSymlink
  THEN IF Len(r.Target) <= 60 THEN <<>>
       ELSE writeBlocks(pl.data, chunksOf(r.Target, bsz)) @@ ptrBytes
  ELSE IF r.IsChar \/ r.IsBlock \/ r.IsFIFO THEN <<>>
  ELSE writeBlocks(pl.data, chunksOf(r.Data, bsz)) @@ ptrBytes

ptrBlockBytes(wp) == [b \in DOMAIN wp |-> WordsToBytes(wp[b])]

\* What Store writes for record r: its inode and its blocks.
writeNode(all, r, pl, payload, wp, bsz) ==
  [ino |-> inodeFor(all, r, inodeBase(r), payload, wp.Block, bsz),
   blocks |-> blocksFor_r(r, pl, payload, ptrBlockBytes(wp.ptrBlocks), bsz)]

\* The marking that leaves out the single-indirect block.
markPtrAboveSingle(pl) ==
  (IF pl.ind2Root > 0
   THEN {pl.ind2Root} \cup {pl.ind2L1[i] : i \in 1..Len(pl.ind2L1)} ELSE {})
  \cup (IF pl.ind3Root > 0
        THEN {pl.ind3Root} \cup {pl.ind3L2[i] : i \in 1..Len(pl.ind3L2)}
             \cup {pl.ind3L1[i] : i \in 1..Len(pl.ind3L1)}
        ELSE {})

\* The pointer blocks of a plan that markPtr marks in the block bitmap.
markPtr(pl) ==
  (IF pl.ind1 > 0 THEN {pl.ind1} ELSE {})
  \cup (IF pl.ind2Root > 0
        THEN {pl.ind2Root} \cup {pl.ind2L1[i] : i \in 1..Len(pl.ind2L1)} ELSE {})
  \cup (IF pl.ind3Root > 0
        THEN {pl.ind3Root} \cup {pl.ind3L2[i] : i \in 1..Len(pl.ind3L2)}
             \cup {pl.ind3L1[i] : i \in 1..Len(pl.ind3L1)}
        ELSE {})

RECURSIVE MergeAll(_, _)
MergeAll(maps, i) == IF i > Len(maps) THEN <<>> ELSE maps[i] @@ MergeAll(maps, i + 1)

\* The metadata layout for block size bsz and totalInodes inodes.
metaLayout(bsz, totalInodes) ==
  [gdtBlk |-> IF bsz > 1024 THEN 1 ELSE 2,
   blkBitmapBlk |-> (IF bsz > 1024 THEN 1 ELSE 2) + 1,
   inoBitmapBlk |-> (IF bsz > 1024 THEN 1 ELSE 2) + 2,
   inodeTableBlocks |-> ceilDiv(totalInodes * inodeSize, bsz),
   inodeTableBlk |-> (IF bsz > 1024 THEN 1 ELSE 2) + 3,
   firstDataBlk |-> (IF bsz > 1024 THEN 1 ELSE 2) + 3 + ceilDiv(totalInodes * inodeSize, bsz)]

superblockOf(bsz, totalInodes, totalBlocks, now) ==
  [InodesCount |-> U32(totalInodes), BlocksCount |-> U32(totalBlocks),
   FreeBlocksCount |-> 0, FreeInodesCount |-> 0,
   FirstDataBlock |-> IF bsz = 1024 THEN 1 ELSE 0,
   LogBlockSize |-> IF bsz = 1024 THEN 0 ELSE IF bsz = 2048 THEN 1 ELSE 2,
   BlocksPerGroup |-> U32(totalBlocks), InodesPerGroup |-> U32(totalInodes),
   MTime |-> now, WTime |-> now, Magic |-> ext2Magic, State |-> 1,
   RevLevel |-> 1, InodeSize |-> inodeSize, FirstIno |-> 11]

\* The blocks and inodes the bitmaps mark.
markedBlocks(firstDataBlk, rootData, rootPlan, filePlan) ==
  (0..(firstDataBlk - 1))
  \cup {rootData[i] : i \in 1..Len(rootData)}
  \cup markPtr(rootPlan)
  \cup UNION {{filePlan[i].data[k] : k \in 1..Len(filePlan[i].data)}
              \cup markPtr(filePlan[i]) : i \in 1..Len(filePlan)}

markedInodes(all) == {2} \cup {all[i].Inode : i \in 1..Len(all)}

\* markBlk and markIno index bitmaps of bsz bytes, made with make([]byte, bsz):
\* a block bn with bn/8 >= bsz, or an inode n with (n-1)/8 >= bsz, is an index
\* out of range, and the Go runtime panics.
bitmapOverflow(bsz, blks, inos) ==
  (\E bn \in blks : bn \div 8 >= bsz) \/ (\E n \in inos : (n - 1) \div 8 >= bsz)

rootInode(rootPayload, ptrBlock, bsz, now) ==
  [ZeroInode EXCEPT !.Mode = BitOr(modeIFDIR, 493),
                    !.Size = U32(Len(rootPayload) * bsz),
                    !.ATime = now, !.CTime = now, !.MTime = now,
                    !.LinksCount = 2,
                    !.Blocks = U32(ceilDiv(Len(rootPayload) * bsz, 512)),
                    !.Block = ptrBlock]

\* The last part of Store: bitmaps, inodes and blocks are written.  nodes[i]
\* is what writeNode gives for all[i]; rootWp the root's pointers.
storeWrite(all, bsz, now, lay, pay, plan, rootWp, nodes) ==
  IF bitmapOverflow(bsz,
                    markedBlocks(lay.firstDataBlk, plan.rootData, plan.rootPlan,
                                 plan.filePlan),
                    markedInodes(all))
  THEN [status |-> "panic"]
  ELSE [status |-> "ok",
        bsz |-> bsz, all |-> all, filePlan |-> plan.filePlan,
        rootData |-> plan.rootData, rootPlan |-> plan.rootPlan,
        rootPayload |-> pay.root, dirPayload |-> pay.dir,
        firstDataBlk |-> lay.firstDataBlk, totalBlocks |-> plan.totalBlocks,
        img |-> [len |-> plan.totalBlocks * bsz,
                 sb |-> superblockOf(bsz, lay.totalInodes, plan.totalBlocks, now),
                 gdtBlk |-> lay.gdtBlk,
                 gd |-> [BlockBitmap |-> U32(lay.blkBitmapBlk),
                         InodeBitmap |-> U32(lay.inoBitmapBlk),
                         InodeTable |-> U32(lay.inodeTableBlk)],
                 blkMap |-> markedBlocks(lay.firstDataBlk, plan.rootData,
                                         plan.rootPlan, plan.filePlan),
                 inoMap |-> {n - 1 : n \in markedInodes(all)},
                 inodeTableBlk |-> lay.inodeTableBlk,
                 inodes |-> [n \in 1..((lay.inodeTableBlocks * bsz) \div inodeSize) |->
                               IF n = 2
                               THEN rootInode(pay.root, rootWp.Block, bsz, now)
                               ELSE IF \E i \in 1..Len(all) : all[i].Inode = n
                               THEN nodes[CHOOSE i \in 1..Len(all) : all[i].Inode = n].ino
                               ELSE ZeroInode],
                 firstDataBlk |-> lay.firstDataBlk,
                 blocks |-> writeBlocks(plan.rootData, pay.root)
                            @@ ptrBlockBytes(rootWp.ptrBlocks)
                            @@ MergeAll([i \in 1..Len(all) |-> nodes[i].blocks], 1)
                            @@ [b \in lay.firstDataBlk..(plan.totalBlocks - 1) |-> <<>>]]]

\* The blocks are laid out: the root's first, then each node's in order.
storeAlloc(all, bsz, now, lay, pay, rootN, alloc) ==
  storeWrite(all, bsz, now, lay, pay,
             [rootData |-> allocData(lay.firstDataBlk, rootN),
              rootPlan |-> allocPtr(planForDataBlocks(rootN, bsz \div 4),
                                    lay.firstDataBlk + rootN).pl,
              filePlan |-> alloc.plans, totalBlocks |-> alloc.cur],
             writePointers(allocPtr(planForDataBlocks(rootN, bsz \div 4),
                                    lay.firstDataBlk + rootN).pl,
                           allocData(lay.firstDataBlk, rootN), bsz \div 4),
             [i \in 1..Len(all) |->
                writeNode(all, all[i], alloc.plans[i], pay.dir[i],
                          writePointers(alloc.plans[i], alloc.plans[i].data, bsz \div 4),
                          bsz)])

storePlan(all, bsz, now, lay, pay) ==
  storeAlloc(all, bsz, now, lay, pay, blocksFor(Len(pay.root) * bsz, bsz),
             allocateAll([i \in 1..Len(all) |->
                            nodeBlocks(all[i], Len(pay.dir[i]) * bsz, bsz)],
                         bsz \div 4, 1,
                         allocPtr(planForDataBlocks(blocksFor(Len(pay.root) * bsz, bsz),
                                                    bsz \div 4),
                                  lay.firstDataBlk + blocksFor(Len(pay.root) * bsz, bsz)).cur,
                         <<>>))

storeNodes(all, bsz, now, totalInodes) ==
  storePlan(all, bsz, now,
            metaLayout(bsz, totalInodes) @@ [totalInodes |-> totalInodes],
            [root |-> buildDirPayload(all, 2, SlashStr, bsz),
             dir |-> [i \in 1..Len(all) |->
                        IF all[i].IsDir
                        THEN buildDirPayload(all, all[i].Inode, all[i].Path, bsz)
                        ELSE <<>>]])

storeSnapshot(recs, bsz, now) ==
  storeNodes(numberInodes(recs), bsz, now, IF Len(recs) + 2 < 11 THEN 11 ELSE Len(recs) + 2)

\* Store with no default: block size 0 is rejected like any other.
StoreRejectingZero(m, blockSize, now) ==
  IF blockSize \notin {1024, 2048, 4096}
  THEN [status |-> "error"]
  ELSE storeSnapshot(snapshotRecs(m), blockSize, now)

\* Store(w, fs, blockSize) at clock reading now.  status is "error" for a
\* rejected block size, "panic" when a bitmap index leaves the one-block
\* bitmap, "ok" otherwise; the planning results are kept beside the image.
Store(m, blockSize, now) ==
  IF blockSize \notin {0, 1024, 2048, 4096}
  THEN [status |-> "error"]
  ELSE storeSnapshot(snapshotRecs(m),
                     IF blockSize \in {0, 1024} THEN defaultBlockSize ELSE blockSize, now)

\* One run of Store in which the map's range loop gave the keys in order.
StoreRanging(m, order, blockSize, now) ==
  IF blockSize \notin {0, 1024, 2048, 4096}
  THEN [status |-> "error"]
  ELSE storeSnapshot(snapshotRanging(m, order),
                     IF blockSize \in {0, 1024} THEN defaultBlockSize ELSE blockSize, now)

(***************************************************************************)
(* Load: the reader.                                                       *)
(***************************************************************************)
\* The context Load derives from the superblock and the group descriptor.
loadCtx(img) ==
  LET bsz == 1024 * (2 ^ img.sb.LogBlockSize)
  IN [bsz |-> bsz,
      inodeTableOff |-> img.gd.InodeTable * bsz,
      iSize |-> IF img.sb.InodeSize = 0 THEN inodeSize ELSE img.sb.InodeSize]

\* The bytes of block blk as the image holds them (blocks of the data area).
blockBytes(img, blk) ==
  IF blk \in DOMAIN img.blocks THEN img.blocks[blk] ELSE <<>>

\* An inode record decoded from 128 raw bytes.
decodeInode(raw) ==
  [Mode |-> Word16At(raw, 0), UID |-> Word16At(raw, 2), Size |-> Word32At(raw, 4),
   ATime |-> Word32At(raw, 8), CTime |-> Word32At(raw, 12), MTime |-> Word32At(raw, 16),
   DTime |-> Word32At(raw, 20), GID |-> Word16At(raw, 24),
   LinksCount |-> Word16At(raw, 26), Blocks |-> Word32At(raw, 28),
   Flags |-> Word32At(raw, 32),
   Block |-> [i \in 1..15 |-> Word32At(raw, 40 + 4 * (i - 1))]]

\* getInode(n): the record at inodeTableOff + (n-1)*iSize, or an error when
\* it does not lie inside the buffer.
getInode(img, ctx, n) ==
  LET off == ctx.inodeTableOff + U32(n - 1) * ctx.iSize
      itOff == img.inodeTableBlk * ctx.bsz
      dataOff == img.firstDataBlk * ctx.bsz
  IN IF off + inodeSize > img.len THEN [err |-> "EOF"]
     ELSE IF off >= itOff /\ off + inodeSize <= dataOff /\ (off - itOff) % inodeSize = 0
     THEN [err |-> "", ino |-> img.inodes[((off - itOff) \div inodeSize) + 1]]
     ELSE IF off >= dataOff
     THEN LET blk == off \div ctx.bsz
              at == off % ctx.bsz
              raw == [i \in 1..inodeSize |->
                        IF at + i <= ctx.bsz THEN ByteAt(blockBytes(img, blk), at + i)
                        ELSE ByteAt(blockBytes(img, blk + 1), at + i - ctx.bsz)]
          IN [err |-> "", ino |-> decodeInode(raw)]
     ELSE [err |-> "unmodelled"]

\* The number of entries of a pointer block up to its last nonzero one: a
\* loop that passes over zero entries instead of stopping at the first.
pastLastPtr(b, ptrsPer) ==
  LET nz == {j \in 0..(ptrsPer - 1) : Word32At(b, 4 * j) # 0}
  IN IF nz = {} THEN 0 ELSE 1 + CHOOSE j \in nz : \A k \in nz : k <= j

\* The number of leading nonzero uint32 entries of a pointer block.
leadingPtrs(b, ptrsPer) ==
  LET zs == {j \in 0..(ptrsPer - 1) : Word32At(b, 4 * j) = 0}
  IN IF zs = {} THEN ptrsPer ELSE CHOOSE j \in zs : \A k \in zs : j <= k

RECURSIVE expandBlocks(_, _, _, _)
RECURSIVE expandList(_, _, _, _, _, _)
\* expandBlocks(p, level): the data blocks below pointer p.
expandBlocks(img, ctx, p, level) ==
  IF p = 0 THEN [err |-> "", list |-> <<>>]
  ELSE IF level = 0 THEN [err |-> "", list |-> <<p>>]
  ELSE IF p * ctx.bsz + ctx.bsz > img.len THEN [err |-> "EOF", list |-> <<>>]
  ELSE LET b == blockBytes(img, p)
       IN expandList(img, ctx, b, 0, leadingPtrs(b, ctx.bsz \div 4), level)

\* The loop of expandBlocks over entries j .. k-1 of pointer block b: the
\* lists of the entries in their order, or the first error among them.  The
\* range is halved at each step, which keeps the evaluation shallow for a
\* full block.
expandList(img, ctx, b, j, k, level) ==
  IF j >= k THEN [err |-> "", list |-> <<>>]
  ELSE IF k = j + 1 THEN expandBlocks(img, ctx, Word32At(b, 4 * j), level - 1)
  ELSE LET sub == expandList(img, ctx, b, j, (j + k) \div 2, level)
       IN IF sub.err # "" THEN sub
          ELSE LET rest == expandList(img, ctx, b, (j + k) \div 2, k, level)
               IN IF rest.err # "" THEN rest
                  ELSE [err |-> "", list |-> sub.list \o rest.list]

\* readFileData: the inode's resolved block list and the bytes read from it.
\* The bytes are not copied out here: data byte i is looked up in the block
\* that holds it (dataByte), len is the number of bytes the copy loop
\* delivers, and the loop's error is the first block whose piece ends past
\* the buffer.
readFileData(img, ctx, ino) ==
  IF ino.Blocks = 0 /\ ino.Size = 0 THEN [err |-> "", list |-> <<>>, len |-> 0]
  ELSE LET direct == SelectSeq(SubSeq(ino.Block, 1, 12), LAMBDA x : x # 0)
           e1 == expandBlocks(img, ctx, ino.Block[13], 1)
           e2 == expandBlocks(img, ctx, ino.Block[14], 2)
           e3 == expandBlocks(img, ctx, ino.Block[15], 3)
           blocks == direct \o e1.list \o e2.list \o e3.list
           read == {i \in 1..Len(blocks) : (i - 1) * ctx.bsz < ino.Size}
       IN IF e1.err # "" THEN [err |-> e1.err, list |-> <<>>, len |-> 0]
          ELSE IF e2.err # "" THEN [err |-> e2.err, list |-> <<>>, len |-> 0]
          ELSE IF e3.err # "" THEN [err |-> e3.err, list |-> <<>>, len |-> 0]
          ELSE IF \E i \in read :
                    blocks[i] * ctx.bsz + Min(ctx.bsz, ino.Size - (i - 1) * ctx.bsz) > img.len
          THEN [err |-> "EOF", list |-> <<>>, len |-> 0]
          ELSE [err |-> "", list |-> blocks,
                len |-> Min(ino.Size, Len(blocks) * ctx.bsz)]

\* Byte i (1-based) of the data read by readFileData.
dataByte(img, ctx, rd, i) ==
  ByteAt(blockBytes(img, rd.list[((i - 1) \div ctx.bsz) + 1]), ((i - 1) % ctx.bsz) + 1)

\* The data read by readFileData, copied out.
dataBytes(img, ctx, rd) == [i \in 1..rd.len |-> dataByte(img, ctx, rd, i)]

\* Little-endian fields of the data at byte offset off (0-based).
data32(img, ctx, rd, off) ==
  dataByte(img, ctx, rd, off + 1) + 256 * dataByte(img, ctx, rd, off + 2)
    + 65536 * dataByte(img, ctx, rd, off + 3) + 16777216 * dataByte(img, ctx, rd, off + 4)

data16(img, ctx, rd, off) ==
  dataByte(img, ctx, rd, off + 1) + 256 * dataByte(img, ctx, rd, off + 2)

\* The device numbers Load takes from Block[0] of a device inode.
rdevMajor(child) == BitAnd(child.Block[1] \div 256, 255)
rdevMinor(child) == BitAnd(child.Block[1], 255)

RECURSIVE walkDir(_, _, _, _, _, _)
RECURSIVE walkEntries(_, _, _, _, _, _, _)
RECURSIVE walkChild(_, _, _, _, _, _, _, _, _, _)
\* walkDir(inum, parent) on the tree m built so far.  depth counts the nested
\* calls; past MaxWalkDepth the recursion is taken for the unbounded one that
\* ends the process with a stack overflow.
walkDir(img, ctx, inum, parent, m, depth) ==
  IF depth > MaxWalkDepth THEN [err |-> "stack overflow", m |-> m]
  ELSE LET gi == getInode(img, ctx, inum)
       IN IF gi.err # "" THEN [err |-> gi.err, m |-> m]
          ELSE IF BitAnd(gi.ino.Mode, modeIFDIR) = 0 THEN [err |-> "not a dir", m |-> m]
          ELSE LET rd == readFileData(img, ctx, gi.ino)
               IN IF rd.err # "" THEN [err |-> rd.err, m |-> m]
                  ELSE walkEntries(img, ctx, rd, 0, parent, m, depth)

\* The entry loop of walkDir from byte offset p of the directory data.
walkEntries(img, ctx, data, p, parent, m, depth) ==
  IF p + 8 > data.len THEN [err |-> "", m |-> m]
  ELSE
  LET deInode == data32(img, ctx, data, p)
      deRecLen == data16(img, ctx, data, p + 4)
      nlen == dataByte(img, ctx, data, p + 7)
  IN IF deInode = 0 \/ deRecLen = 0 THEN [err |-> "", m |-> m]
     ELSE IF p + deRecLen > data.len THEN [err |-> "", m |-> m]
     ELSE IF 8 + nlen > deRecLen \/ p + 8 + nlen > data.len THEN [err |-> "", m |-> m]
     ELSE
     LET name == [k \in 1..nlen |-> dataByte(img, ctx, data, p + 8 + k)]
     IN IF name = DotStr \/ name = DotDotStr
        THEN walkEntries(img, ctx, data, p + deRecLen, parent, m, depth)
        ELSE
        LET gc == getInode(img, ctx, deInode)
        IN IF gc.err # "" THEN [err |-> gc.err, m |-> m]
           ELSE walkChild(img, ctx, data, p + deRecLen, parent, m, depth,
                          deInode, gc.ino, pathJoin(parent, name))

\* The switch of walkDir on the type of the entry's inode child, entered in
\* the tree as full; the loop then goes on at recEnd.
walkChild(img, ctx, data, recEnd, parent, m, depth, deInode, child, full) ==
  IF BitAnd(child.Mode, 61440) = modeIFDIR
  THEN LET sub == walkDir(img, ctx, deInode, full,
                          PutDirMode(m, full, child.Mode, child.UID, child.GID, child.MTime),
                          depth + 1)
       IN IF sub.err # "" THEN sub
          ELSE walkEntries(img, ctx, data, recEnd, parent, sub.m, depth)
  ELSE IF BitAnd(child.Mode, 61440) = modeIFREG
  THEN LET rd == readFileData(img, ctx, child)
       IN IF rd.err # "" THEN [err |-> rd.err, m |-> m]
          ELSE walkEntries(img, ctx, data, recEnd, parent,
                 PutFile(m, full, dataBytes(img, ctx, rd), child.Mode,
                         child.UID, child.GID, child.MTime),
                 depth)
  ELSE IF BitAnd(child.Mode, 61440) = modeIFLNK
  THEN IF child.Size <= 60
       THEN walkEntries(img, ctx, data, recEnd, parent,
              PutSymlink(m, full, inlineSymlinkFromInode(child),
                         child.UID, child.GID, child.MTime),
              depth)
       ELSE LET rd == readFileData(img, ctx, child)
            IN IF rd.err # "" THEN [err |-> rd.err, m |-> m]
               ELSE walkEntries(img, ctx, data, recEnd, parent,
                      PutSymlink(m, full, dataBytes(img, ctx, rd),
                                 child.UID, child.GID, child.MTime),
                      depth)
  ELSE IF BitAnd(child.Mode, 61440) = modeIFCHR
  THEN walkEntries(img, ctx, data, recEnd, parent,
         PutNode(m, full, ModeChar, BitAnd(child.Mode, 4095), child.UID, child.GID,
                 rdevMajor(child), rdevMinor(child), child.MTime),
         depth)
  ELSE IF BitAnd(child.Mode, 61440) = modeIFBLK
  THEN walkEntries(img, ctx, data, recEnd, parent,
         PutNode(m, full, ModeBlock, BitAnd(child.Mode, 4095), child.UID, child.GID,
                 rdevMajor(child), rdevMinor(child), child.MTime),
         depth)
  ELSE IF BitAnd(child.Mode, 61440) = modeIFIFO
  THEN walkEntries(img, ctx, data, recEnd, parent,
         PutNode(m, full, ModeFIFO, BitAnd(child.Mode, 4095), child.UID, child.GID,
                 0, 0, child.MTime),
         depth)
  ELSE walkEntries(img, ctx, data, recEnd, parent, m, depth)

\* The rest of Load, after the superblock is accepted: the group descriptor
\* is read and the tree walked from inode 2.
loadTree(img) ==
  LET ctx == loadCtx(img)
      gdtBlock == IF ctx.bsz > 1024 THEN 1 ELSE 2
  IN IF gdtBlock * ctx.bsz + 32 > img.len THEN [status |-> "error", err |-> "EOF"]
     ELSE IF gdtBlock # img.gdtBlk THEN [status |-> "error", err |-> "unmodelled"]
     ELSE
     LET root == PutDir(New, SlashStr, 0, 0, img.sb.MTime)
         w == walkDir(img, ctx, 2, SlashStr, root, 0)
     IN IF w.err = "stack overflow" THEN [status |-> "crash"]
        ELSE IF w.err # "" THEN [status |-> "error", err |-> w.err]
        ELSE [status |-> "ok", fs |-> w.m]

\* Load with neither the length test nor the magic test.
LoadAnyMagic(img) ==
  IF img.sb.RevLevel < 1 THEN [status |-> "error", err |-> "unsupported"]
  ELSE IF img.sb.LogBlockSize > 2 THEN [status |-> "error", err |-> "unsupported"]
  ELSE loadTree(img)

\* Load(r) on the bytes of img.  status is "ok" with the tree, "error" with
\* the error returned, or "crash" when the walk never returns.
Load(img) ==
  IF img.len < 2048 THEN [status |-> "error", err |-> "too small"]
  ELSE IF img.sb.Magic # ext2Magic THEN [status |-> "error", err |-> "not ext2"]
  ELSE IF img.sb.RevLevel < 1 THEN [status |-> "error", err |-> "unsupported"]
  ELSE IF img.sb.LogBlockSize > 2 THEN [status |-> "error", err |-> "unsupported"]
  ELSE loadTree(img)

(***************************************************************************)
(* The state machine: a tree is built with the memfs operations, stored    *)
(* with some block size, the image possibly damaged, and loaded again.     *)
(* planned holds one run of the planner on a block count of its own.       *)
(***************************************************************************)
VARIABLES fs, stored, relinked, damage, loaded, planned, last

vars == <<fs, stored, relinked, damage, loaded, planned, last>>

None == [status |-> "none"]

\* Inputs.  Names: d, e, f, s, p, dev, null, sda, hello.txt.
P_d == <<47, 100>>
P_de == <<47, 100, 47, 101>>
P_df == <<47, 100, 47, 102>>
P_s == <<47, 115>>
P_ds == <<47, 100, 47, 115>>
P_p == <<47, 112>>
P_e == <<47, 101>>
P_dev == <<47, 100, 101, 118>>
P_null == <<47, 100, 101, 118, 47, 110, 117, 108, 108>>
P_sda == <<47, 100, 101, 118, 47, 115, 100, 97>>
P_hello == <<47, 104, 101, 108, 108, 111, 46, 116, 120, 116>>
HelloData == <<72, 101, 108, 108, 111, 44, 32, 119, 111, 114, 108, 100, 33>>

\* A symlink target of n bytes that differ from place to place.
TargetOf(n) == [i \in 1..n |-> 97 + (i % 26)]

\* 12289 bytes take thirteen blocks of 1024: one more than the direct
\* pointers hold.
TargetLens == {0, 60, 61, 1025, 12289}

BlockSizes == {0, 512, 1024, 2048, 4096, 8192}
Clock == {1700000000}

PutFileArgs ==
  {[p |-> P_hello, data |-> HelloData, mode |-> 420, uid |-> 0, gid |-> 0, mt |-> 1000],
   [p |-> P_df, data |-> <<>>, mode |-> 384, uid |-> 70000, gid |-> 1000, mt |-> 2000]}

PutDirArgs ==
  {[p |-> P_d, mode |-> BitOr(ModeDir, 493)], [p |-> P_de, mode |-> 448]}

PutSymlinkArgs ==
  {[p |-> P_s, target |-> TargetOf(n)] : n \in TargetLens}
  \cup {[p |-> P_ds, target |-> TargetOf(61)]}

PutNodeArgs ==
  {[p |-> P_null, typ |-> ModeChar, perm |-> 438, maj |-> 1, min |-> 3],
   [p |-> P_sda, typ |-> ModeBlock, perm |-> 432, maj |-> 8, min |-> 1],
   [p |-> P_p, typ |-> ModeFIFO, perm |-> 420, maj |-> 0, min |-> 0]}

MkdirAllArgs == {P_dev, P_e}

RemoveArgs == {SlashStr, P_d, P_s}

\* A name of n bytes: "x" repeated, then the digit k.  Names of 255 bytes take
\* records of 264 bytes; one of 200 bytes takes 208 and sorts before them.
LongName(k, n) == [i \in 1..n |-> IF i < n THEN 120 ELSE 48 + k]
LongPath(k, n) == SlashStr \o LongName(k, n)

BigDirArgs == {[p |-> LongPath(1, 255), mode |-> BitOr(ModeDir, 493)]}

BigNodeArgs ==
  {[p |-> LongPath(2, 255), typ |-> ModeFIFO, perm |-> 420, maj |-> 0, min |-> 0]}

BigSymlinkArgs ==
  {[p |-> LongPath(3, 255), target |-> TargetOf(5)],
   [p |-> LongPath(4, 255), target |-> TargetOf(61)],
   [p |-> LongPath(5, 255), target |-> TargetOf(60)],
   [p |-> LongPath(6, 200), target |-> TargetOf(7)]}

Building == stored = None
Fits(m, max) == Cardinality(DOMAIN m) <= max + 1

Init ==
  /\ fs = New
  /\ stored = None
  /\ relinked = FALSE
  /\ damage = "none"
  /\ loaded = None
  /\ planned = None
  /\ last = None

PutFileAct(Args, max) ==
  /\ Building
  /\ \E a \in Args :
       /\ fs' = PutFile(fs, a.p, a.data, a.mode, a.uid, a.gid, a.mt)
       /\ Fits(fs', max)
  /\ UNCHANGED <<stored, relinked, damage, loaded, planned, last>>

PutDirModeAct(Args, max) ==
  /\ Building
  /\ \E a \in Args :
       /\ fs' = PutDirMode(fs, a.p, a.mode, 0, 0, 1000)
       /\ Fits(fs', max)
  /\ UNCHANGED <<stored, relinked, damage, loaded, planned, last>>

PutSymlinkAct(Args, max) ==
  /\ Building
  /\ \E a \in Args :
       /\ fs' = PutSymlink(fs, a.p, a.target, 0, 0, 1000)
       /\ Fits(fs', max)
  /\ UNCHANGED <<stored, relinked, damage, loaded, planned, last>>

PutNodeAct(Args, max) ==
  /\ Building
  /\ \E a \in Args :
       /\ fs' = PutNode(fs, a.p, a.typ, a.perm, 0, 0, a.maj, a.min, 1000)
       /\ Fits(fs', max)
  /\ UNCHANGED <<stored, relinked, damage, loaded, planned, last>>

DoPutFile == PutFileAct(PutFileArgs, MaxNodes)
DoPutDirMode == PutDirModeAct(PutDirArgs, MaxNodes)
DoPutSymlink == PutSymlinkAct(PutSymlinkArgs, MaxNodes)
DoPutNode == PutNodeAct(PutNodeArgs, MaxNodes)

DoMkdirAll ==
  /\ Building
  /\ \E d \in MkdirAllArgs :
       /\ fs' = MkdirAll(fs, d, 0, 0, 1000)
       /\ Fits(fs', MaxNodes)
  /\ UNCHANGED <<stored, relinked, damage, loaded, planned, last>>

DoRemove ==
  /\ Building
  /\ \E p \in RemoveArgs : fs' = Remove(fs, p).m
  /\ UNCHANGED <<stored, relinked, damage, loaded, planned, last>>

DoStore ==
  /\ Building
  /\ \E bs \in BlockSizes, now \in Clock :
       stored' = [blockSize |-> bs] @@ Store(fs, bs, now)
  /\ UNCHANGED <<fs, relinked, damage, loaded, planned, last>>

\* The byte offsets of the entries of one directory block b, as walkDir steps
\* through them.
RECURSIVE entryOffsets(_, _, _)
entryOffsets(b, p, bsz) ==
  IF p + 8 > bsz THEN {}
  ELSE LET rl == Word16At(b, p + 4)
       IN IF Word32At(b, p) = 0 \/ rl = 0 \/ p + rl > bsz THEN {}
          ELSE {p} \cup entryOffsets(b, p + rl, bsz)

\* The blocks that hold directory payloads in the stored image.
dirBlocks(st) ==
  {st.rootData[k] : k \in 1..Len(st.rootData)}
  \cup UNION {{st.filePlan[i].data[k] : k \in 1..Len(st.filePlan[i].data)} :
                i \in {i \in 1..Len(st.all) : st.all[i].IsDir}}

\* The image is damaged before it is read: a directory entry that names a
\* subdirectory is made to name the root inode 2 instead, which closes a cycle.
DoRelink ==
  /\ stored.status = "ok"
  /\ loaded = None
  /\ ~relinked
  /\ damage = "none"
  /\ \E b \in dirBlocks(stored) :
       \E p \in entryOffsets(stored.img.blocks[b], 0, stored.bsz) :
         /\ \E i \in 1..Len(stored.all) :
              /\ stored.all[i].Inode = Word32At(stored.img.blocks[b], p)
              /\ BitAnd(stored.img.inodes[stored.all[i].Inode].Mode, 61440) = modeIFDIR
         /\ ByteAt(stored.img.blocks[b], p + 9) # 46
         /\ stored' = [stored EXCEPT !.img.blocks[b] =
                         [k \in 1..Len(@) |->
                            IF k \in (p + 1)..(p + 4) THEN LE32(2)[k - p] ELSE @[k]]]
  /\ relinked' = TRUE
  /\ UNCHANGED <<fs, damage, loaded, planned, last>>

DoLoad ==
  /\ stored.status = "ok"
  /\ loaded = None
  /\ loaded' = Load(stored.img)
  /\ UNCHANGED <<fs, stored, relinked, damage, planned, last>>

Next ==
  \/ DoPutFile
  \/ DoPutDirMode
  \/ DoPutSymlink
  \/ DoPutNode
  \/ DoMkdirAll
  \/ DoRemove
  \/ DoStore
  \/ DoRelink
  \/ DoLoad

Spec == Init /\ [][Next]_vars

(***************************************************************************)
(* Large directories: the root is filled with long names, stored, loaded.  *)
(***************************************************************************)
DoPutDirBig == PutDirModeAct(BigDirArgs, MaxBigNodes)
DoPutNodeBig == PutNodeAct(BigNodeArgs, MaxBigNodes)
DoPutSymlinkBig == PutSymlinkAct(BigSymlinkArgs, MaxBigNodes)

NextBig ==
  \/ DoPutDirBig
  \/ DoPutNodeBig
  \/ DoPutSymlinkBig
  \/ DoStore
  \/ DoLoad

SpecBig == Init /\ [][NextBig]_vars

(***************************************************************************)
(* Names at the limit of the directory entry's one-byte name length: the   *)
(* tree is given names of 255 and of 256 bytes beside short ones, and is   *)
(* stored.                                                                 *)
(***************************************************************************)
MaxNameNodes == 3

NameDirArgs ==
  {[p |-> P_d, mode |-> BitOr(ModeDir, 493)],
   [p |-> LongPath(1, 255), mode |-> BitOr(ModeDir, 493)],
   [p |-> pathJoin(LongPath(1, 255), LongName(2, 256)), mode |-> BitOr(ModeDir, 493)]}

NameSymlinkArgs ==
  {[p |-> P_ds, target |-> TargetOf(5)], [p |-> P_s, target |-> TargetOf(61)],
   [p |-> LongPath(3, 256), target |-> TargetOf(5)]}

DoPutDirNames == PutDirModeAct(NameDirArgs, MaxNameNodes)
DoPutSymlinkNames == PutSymlinkAct(NameSymlinkArgs, MaxNameNodes)

NextNames ==
  \/ DoPutDirNames
  \/ DoPutSymlinkNames
  \/ DoStore

SpecNames == Init /\ [][NextNames]_vars

(***************************************************************************)
(* memfs alone: the operations of FS are called on a tree with any of the  *)
(* paths of FsPaths.  last is the latest call when that was Remove: its    *)
(* argument, the tree it was called on and whether it returned nil.        *)
(***************************************************************************)
\* "", "/", "/a", "a/b", "/ab", "/a/.."
FsPaths ==
  {<<>>, SlashStr, <<47, 97>>, <<97, 47, 98>>, <<47, 97, 98>>, <<47, 97, 47, 46, 46>>}

DoFsMkdirAll ==
  /\ \E p \in FsPaths : fs' = MkdirAll(fs, p, 0, 0, 1000)
  /\ last' = None
  /\ UNCHANGED <<stored, relinked, damage, loaded, planned>>

DoFsPutFile ==
  /\ \E p \in FsPaths : fs' = PutFile(fs, p, <<>>, 420, 0, 0, 1000)
  /\ last' = None
  /\ UNCHANGED <<stored, relinked, damage, loaded, planned>>

DoFsPutDir ==
  /\ \E p \in FsPaths : fs' = PutDir(fs, p, 0, 0, 1000)
  /\ last' = None
  /\ UNCHANGED <<stored, relinked, damage, loaded, planned>>

DoFsPutDirMode ==
  /\ \E p \in FsPaths : fs' = PutDirMode(fs, p, 493, 0, 0, 1000)
  /\ last' = None
  /\ UNCHANGED <<stored, relinked, damage, loaded, planned>>

DoFsPutSymlink ==
  /\ \E p \in FsPaths : fs' = PutSymlink(fs, p, TargetOf(5), 0, 0, 1000)
  /\ last' = None
  /\ UNCHANGED <<stored, relinked, damage, loaded, planned>>

DoFsPutNode ==
  /\ \E p \in FsPaths : fs' = PutNode(fs, p, ModeChar, 438, 0, 0, 1, 3, 1000)
  /\ last' = None
  /\ UNCHANGED <<stored, relinked, damage, loaded, planned>>

DoFsWriteFile ==
  /\ \E p \in FsPaths : fs' = WriteFile(fs, p, HelloData).m
  /\ last' = None
  /\ UNCHANGED <<stored, relinked, damage, loaded, planned>>

DoFsRemove ==
  /\ \E p \in FsPaths :
       /\ fs' = Remove(fs, p).m
       /\ last' = [status |-> "removed", p |-> p, before |-> fs, ok |-> Remove(fs, p).ok]
  /\ UNCHANGED <<stored, relinked, damage, loaded, planned>>

NextFS ==
  \/ DoFsMkdirAll
  \/ DoFsPutFile
  \/ DoFsPutDir
  \/ DoFsPutDirMode
  \/ DoFsPutSymlink
  \/ DoFsPutNode
  \/ DoFsWriteFile
  \/ DoFsRemove

SpecFS == Init /\ [][NextFS]_vars

(***************************************************************************)
(* Damaged images: a small tree is stored, one field of the image is       *)
(* overwritten, or the buffer cut short, and the result is loaded.  Load   *)
(* takes any reader's bytes, so every such buffer is an input of Load.     *)
(***************************************************************************)
DamageSymlinkArgs ==
  {[p |-> P_s, target |-> TargetOf(61)], [p |-> P_s, target |-> TargetOf(12289)],
   [p |-> P_ds, target |-> TargetOf(61)]}

DoPutDirSmall == PutDirModeAct(PutDirArgs, MaxDamageNodes)
DoPutSymlinkSmall == PutSymlinkAct(DamageSymlinkArgs, MaxDamageNodes)

Intact ==
  stored.status = "ok" /\ loaded = None /\ ~relinked /\ damage = "none"

\* Inode numbers above the superblock's count whose record still lies in the
\* buffer: the first slot after the count (zero padding of the inode table)
\* and the first slot after the table (the start of the root's payload).
OutOfRangeInodes(st) == {st.img.sb.InodesCount + 1, Len(st.img.inodes) + 1}

\* An entry of the root directory, not "." or "..", is given an inode number
\* above the inode count.
DoRenumber ==
  /\ Intact
  /\ \E p \in entryOffsets(stored.img.blocks[stored.rootData[1]], 0, stored.bsz),
        n \in OutOfRangeInodes(stored) :
       /\ ByteAt(stored.img.blocks[stored.rootData[1]], p + 9) # 46
       /\ stored' = [stored EXCEPT !.img.blocks[stored.rootData[1]] =
                       [k \in 1..Len(@) |->
                          IF k \in (p + 1)..(p + 4) THEN LE32(n)[k - p] ELSE @[k]]]
  /\ damage' = "inode"
  /\ UNCHANGED <<fs, relinked, loaded, planned, last>>

\* The inodes whose block list Load resolves: the directories, the regular
\* files and the symlinks kept in data blocks, unless both their block count
\* and their size are 0.
ResolvedInodes(st) ==
  {n \in {2} \cup {st.all[i].Inode : i \in 1..Len(st.all)} :
     /\ ~(st.img.inodes[n].Blocks = 0 /\ st.img.inodes[n].Size = 0)
     /\ \/ BitAnd(st.img.inodes[n].Mode, 61440) \in {modeIFDIR, modeIFREG}
        \/ BitAnd(st.img.inodes[n].Mode, 61440) = modeIFLNK /\ st.img.inodes[n].Size > 60}

\* The slots of the block array that are overwritten: two direct pointers
\* and the single-indirect root.
PointerSlots == {1, 2, 13}

\* A slot of a resolved inode's block array is pointed at the first block
\* past the end of the buffer.
DoBadPointer ==
  /\ Intact
  /\ \E n \in ResolvedInodes(stored), k \in PointerSlots :
       stored' = [stored EXCEPT !.img.inodes[n].Block[k] = stored.totalBlocks]
  /\ damage' = "pointer"
  /\ UNCHANGED <<fs, relinked, loaded, planned, last>>

\* The superblock is that of a revision 0 image: revision level 0, and an
\* inode size field of 0.
DoSetRevision ==
  /\ Intact
  /\ stored' = [stored EXCEPT !.img.sb.RevLevel = 0, !.img.sb.InodeSize = 0]
  /\ damage' = "revision"
  /\ UNCHANGED <<fs, relinked, loaded, planned, last>>

\* Magic values other than 0xEF53: zero, one less, and the bytes swapped.
BadMagics == {0, 61266, 21487}

\* The magic field is overwritten, the revision level with it or not.
DoSetMagic ==
  /\ Intact
  /\ \E mg \in BadMagics, rev \in {0, 1} :
       stored' = [stored EXCEPT !.img.sb.Magic = mg, !.img.sb.RevLevel = rev]
  /\ damage' = "magic"
  /\ UNCHANGED <<fs, relinked, loaded, planned, last>>

ShortLens == {0, 1024, 2047}

\* The buffer is cut to fewer than 2048 bytes.
DoShorten ==
  /\ Intact
  /\ \E n \in ShortLens : stored' = [stored EXCEPT !.img.len = n]
  /\ damage' = "short"
  /\ UNCHANGED <<fs, relinked, loaded, planned, last>>

NextDamage ==
  \/ DoPutDirSmall
  \/ DoPutSymlinkSmall
  \/ DoStore
  \/ DoRenumber
  \/ DoBadPointer
  \/ DoSetRevision
  \/ DoSetMagic
  \/ DoShorten
  \/ DoLoad

SpecDamage == Init /\ [][NextDamage]_vars

(***************************************************************************)
(* Two runs of Store on one tree.  Each run ranges over the map in an      *)
(* order of its own and reads the clock when it runs; last is the second   *)
(* run: the order it was given and what it produced.                       *)
(***************************************************************************)
MaxOrderNodes == 2
OrderBlockSizes == {1024, 4096}
LaterClock == {1700000000, 1700000060}

DoPutFileOrder == PutFileAct(PutFileArgs, MaxOrderNodes)
DoPutDirOrder == PutDirModeAct(PutDirArgs, MaxOrderNodes)
DoPutSymlinkOrder == PutSymlinkAct(DamageSymlinkArgs, MaxOrderNodes)

DoStoreRanging ==
  /\ Building
  /\ \E order \in rangeOrders(fs), bs \in OrderBlockSizes, now \in Clock :
       stored' = [blockSize |-> bs, order |-> order]
                 @@ StoreRanging(fs, order, bs, now)
  /\ UNCHANGED <<fs, relinked, damage, loaded, planned, last>>

DoStoreAgain ==
  /\ stored.status = "ok"
  /\ last = None
  /\ \E order \in rangeOrders(fs), now \in LaterClock :
       last' = [status |-> "again", order |-> order, now |-> now,
                run |-> StoreRanging(fs, order, stored.blockSize, now)]
  /\ UNCHANGED <<fs, stored, relinked, damage, loaded, planned>>

NextOrder ==
  \/ DoPutFileOrder
  \/ DoPutDirOrder
  \/ DoPutSymlinkOrder
  \/ DoStoreRanging
  \/ DoStoreAgain

SpecOrder == Init /\ [][NextOrder]_vars

(***************************************************************************)
(* The planner alone, on block counts around the capacity of each level.   *)
(***************************************************************************)
\* The block counts tried with ptrsPer pointers per block: the small ones,
\* and PlanSpan either side of the last count each level can hold.
PlanCounts(P) ==
  (0..MaxSmallBlocks)
  \cup ((12 + P - PlanSpan)..(12 + P + PlanSpan))
  \cup ((12 + P + P * P - PlanSpan)..(12 + P + P * P + PlanSpan))
  \cup {12 + P + k * P + 1 : k \in 1..PlanSpan}

DoPlan ==
  /\ \E bsz \in {1024, 2048, 4096} :
       \E n \in PlanCounts(bsz \div 4) :
         LET pl == planForDataBlocks(n, bsz \div 4)
         IN planned' = [status |-> "planned", n |-> n, ptrsPer |-> bsz \div 4,
                        pl |-> pl, ptrBlocks |-> countPtr(pl),
                        alloc |-> allocPtr(pl, 100).pl]
  /\ UNCHANGED <<fs, stored, relinked, damage, loaded, last>>

NextPlan == DoPlan

SpecPlan == Init /\ [][NextPlan]_vars

(***************************************************************************)
(* Store's layout and bitmap steps on a tree of the root and one regular   *)
(* file of n data blocks, for block counts around the 8 * bsz blocks that  *)
(* the one-block bitmap describes.                                         *)
(***************************************************************************)
CapBlockSizes == {1024, 2048}
CapCounts(bsz) == (8 * bsz - CapSpan)..(8 * bsz)

\* What Store does with the layout lay, the root in one block and the file's
\* plan alloc: a panic in markBlk, or the image of alloc.cur blocks.
allocateOutcome(bsz, n, lay, alloc) ==
  [status |-> "allocated", bsz |-> bsz, n |-> n,
   firstDataBlk |-> lay.firstDataBlk,
   totalBlocks |-> alloc.cur,
   ptrBlocks |-> Cardinality(markPtr(alloc.plans[1])),
   result |-> IF bitmapOverflow(bsz,
                                markedBlocks(lay.firstDataBlk,
                                             allocData(lay.firstDataBlk, 1),
                                             allocPtr(planForDataBlocks(1, bsz \div 4),
                                                      lay.firstDataBlk + 1).pl,
                                             alloc.plans),
                                {2, 3})
              THEN "panic" ELSE "ok"]

DoAllocate ==
  /\ planned = None
  /\ \E bsz \in CapBlockSizes :
       \E n \in CapCounts(bsz) :
         \E alloc \in {allocateAll(<<n>>, bsz \div 4, 1,
                                   metaLayout(bsz, 11).firstDataBlk + 1, <<>>)} :
           planned' = allocateOutcome(bsz, n, metaLayout(bsz, 11), alloc)
  /\ UNCHANGED <<fs, stored, relinked, damage, loaded, last>>

NextCap == DoAllocate

SpecCap == Init /\ [][NextCap]_vars

(***************************************************************************)
(* Store's allocation, bitmap and pointer-writing steps on the root and    *)
(* one regular file of n data blocks, followed by the block resolution     *)
(* Load makes of the inode and the pointer blocks that were written.       *)
(***************************************************************************)
\* The block counts tried with P pointers per block: the small ones, PlanSpan
\* either side of the last count the single-indirect block holds, the counts
\* that open the 2nd, 3rd, ... level-1 block of the double-indirect tree, and
\* (for the smallest block size) the first count that needs the
\* triple-indirect tree.
PtrCounts(P) ==
  (1..MaxSmallBlocks)
  \cup ((12 + P - PlanSpan)..(12 + P + PlanSpan))
  \cup {12 + P + k * P + 1 : k \in 1..PlanSpan}
  \cup (IF P = defaultBlockSize \div 4 THEN {12 + P + P * P + 1} ELSE {})

\* The regular-file inode and the image Load reads it from, when Store has
\* written the pointers wp for a file of n full blocks.
resolveWritten(bsz, n, totalBlocks, wp) ==
  readFileData([len |-> totalBlocks * bsz, blocks |-> ptrBlockBytes(wp.ptrBlocks)],
               [bsz |-> bsz],
               [ZeroInode EXCEPT !.Mode = BitOr(modeIFREG, 420),
                                 !.Size = U32(n * bsz),
                                 !.Blocks = U32(ceilDiv(n * bsz, 512)),
                                 !.Block = wp.Block])

\* Store marks the bitmaps before it writes any pointer: when markBlk panics
\* no inode and no pointer block is written, and there is nothing to resolve.
pointerOutcome(bsz, n, lay, alloc) ==
  IF bitmapOverflow(bsz,
                    markedBlocks(lay.firstDataBlk, allocData(lay.firstDataBlk, 1),
                                 allocPtr(planForDataBlocks(1, bsz \div 4),
                                          lay.firstDataBlk + 1).pl,
                                 alloc.plans),
                    {2, 3})
  THEN [status |-> "pointers", bsz |-> bsz, n |-> n, result |-> "panic",
        data |-> alloc.plans[1].data, ptr |-> markPtr(alloc.plans[1]),
        err |-> "", resolved |-> <<>>]
  ELSE LET rd == resolveWritten(bsz, n, alloc.cur,
                                writePointers(alloc.plans[1], alloc.plans[1].data,
                                              bsz \div 4))
       IN [status |-> "pointers", bsz |-> bsz, n |-> n, result |-> "ok",
           data |-> alloc.plans[1].data, ptr |-> markPtr(alloc.plans[1]),
           err |-> rd.err, resolved |-> rd.list]

DoWritePointers ==
  /\ planned = None
  /\ \E bsz \in {1024, 2048, 4096} :
       \E n \in PtrCounts(bsz \div 4) :
         \E alloc \in {allocateAll(<<n>>, bsz \div 4, 1,
                                   metaLayout(bsz, 11).firstDataBlk + 1, <<>>)} :
           planned' = pointerOutcome(bsz, n, metaLayout(bsz, 11), alloc)
  /\ UNCHANGED <<fs, stored, relinked, damage, loaded, last>>

NextPtr == DoWritePointers

SpecPtr == Init /\ [][NextPtr]_vars

(***************************************************************************)
(* Load's block expansion on pointer blocks of any content.  Blocks 4, 5   *)
(* and 6 of a buffer each hold two leading entries drawn from 0, 5 and 6   *)
(* and zeros after them; one pointer is expanded at level 1, 2 or 3.       *)
(***************************************************************************)
ExpandBlocksAt == {4, 5, 6}
ExpandEntries == {0, 5, 6}
ExpandRoots == {0, 4}

\* The entries of a pointer block with every entry after its first zero set
\* to zero.
cutAfterZero(ws) ==
  [i \in 1..Len(ws) |-> IF \E j \in 1..i : ws[j] = 0 THEN 0 ELSE ws[i]]

\* The buffer whose blocks hold the given entries.
bufferOf(words) ==
  [len |-> 8 * defaultBlockSize,
   blocks |-> [b \in DOMAIN words |-> WordsToBytes(words[b])]]

DoExpand ==
  /\ planned = None
  /\ \E words \in [ExpandBlocksAt -> [1..2 -> ExpandEntries]],
        root \in ExpandRoots, level \in 1..3 :
       \E ex \in {expandBlocks(bufferOf(words), [bsz |-> defaultBlockSize], root, level)} :
         planned' = [status |-> "expanded", words |-> words, root |-> root,
                     level |-> level, err |-> ex.err, list |-> ex.list,
                     cut |-> expandBlocks(
                               bufferOf([b \in ExpandBlocksAt |-> cutAfterZero(words[b])]),
                               [bsz |-> defaultBlockSize], root, level).list]
  /\ UNCHANGED <<fs, stored, relinked, damage, loaded, last>>

NextExpand == DoExpand

SpecExpand == Init /\ [][NextExpand]_vars

(***************************************************************************)
(* Properties.                                                             *)
(***************************************************************************)
\* The kind and the permission bits of a tree entry.
Kind(e) == BitAnd(e.Mode, 61440)
PermBits(e) == BitAnd(e.Mode, 4095)

\* Every path but the root has its parent in the tree, as a directory.
WellFormed(m) ==
  \A p \in DOMAIN m \ {SlashStr} :
    pathDir(p) \in DOMAIN m /\ Kind(m[pathDir(p)]) = ModeDir

\* The immediate children of directory d in tree m.
Children(m, d) == {p \in DOMAIN m \ {SlashStr} : pathDir(p) = d}

\* loaded is Load(Store(fs, bs)): the image went from Store to Load untouched.
RoundTrip == stored.status = "ok" /\ ~relinked /\ damage = "none" /\ loaded # None

\* Path p came back from Load.
CameBack(p) == loaded.status = "ok" /\ p \in DOMAIN loaded.fs

\* Where Store keeps path p: its place in all, its plan and its inode.
IndexOf(p) == CHOOSE i \in 1..Len(stored.all) : stored.all[i].Path = p
PlanOf(p) == stored.filePlan[IndexOf(p)]
InodeOf(p) == stored.img.inodes[stored.all[IndexOf(p)].Inode]

SamePayload(a, b) ==
  /\ Kind(a) = ModeFile => a.Data = b.Data
  /\ Kind(a) = ModeLink => a.Target = b.Target
  /\ Kind(a) \in {ModeChar, ModeBlock} =>
       a.RdevMajor = b.RdevMajor /\ a.RdevMinor = b.RdevMinor

\* C1: Load(Store(tree, bs)) succeeds on every well-formed tree and returns
\* the same set of paths, each with the same kind and the same payload (file
\* bytes, symlink target, device major/minor).
C1_RoundTrip ==
  (RoundTrip /\ WellFormed(fs)) =>
    /\ loaded.status = "ok"
    /\ DOMAIN loaded.fs = DOMAIN fs
    /\ \A p \in DOMAIN fs \ {SlashStr} :
         Kind(loaded.fs[p]) = Kind(fs[p]) /\ SamePayload(fs[p], loaded.fs[p])

\* C2: every regular file comes back from Load(Store(tree, bs)) as a regular
\* file at the same path with the same bytes, permission bits and size.
C2_RegularFileRoundTrip ==
  RoundTrip =>
    \A p \in DOMAIN fs :
      Kind(fs[p]) = ModeFile =>
        /\ CameBack(p)
        /\ Kind(loaded.fs[p]) = ModeFile
        /\ loaded.fs[p].Data = fs[p].Data
        /\ PermBits(loaded.fs[p]) = PermBits(fs[p])
        /\ Len(loaded.fs[p].Data) = Len(fs[p].Data)

\* C3: every character or block device with major and minor in 0..255 comes
\* back as a device of the same kind with the same (major, minor); its inode
\* holds (major<<8)|(minor&0xff) in block slot 0 and it owns no data blocks.
C3_DeviceRoundTrip ==
  RoundTrip =>
    \A p \in DOMAIN fs :
      (/\ Kind(fs[p]) \in {ModeChar, ModeBlock}
       /\ fs[p].RdevMajor \in 0..255
       /\ fs[p].RdevMinor \in 0..255) =>
        /\ CameBack(p)
        /\ Kind(loaded.fs[p]) = Kind(fs[p])
        /\ loaded.fs[p].RdevMajor = fs[p].RdevMajor
        /\ loaded.fs[p].RdevMinor = fs[p].RdevMinor
        /\ InodeOf(p).Block[1] = fs[p].RdevMajor * 256 + fs[p].RdevMinor
        /\ PlanOf(p).data = <<>>

\* The bytes the records of ".", ".." and the children of d take together.
RECURSIVE RecordBytes(_)
RecordBytes(S) ==
  IF S = {} THEN 0
  ELSE LET p == CHOOSE q \in S : TRUE
       IN recLen(Len(pathBase(p))) + RecordBytes(S \ {p})

NeedsMoreThanOneBlock(d) ==
  recLen(1) + recLen(2) + RecordBytes(Children(fs, d)) > stored.bsz

\* C4: for every directory whose ".", ".." and child records need more than
\* one block, Load(Store(tree, bs)) returns exactly the same set of immediate
\* children.
C4_LargeDirChildren ==
  RoundTrip =>
    \A d \in DOMAIN fs :
      (Kind(fs[d]) = ModeDir /\ NeedsMoreThanOneBlock(d)) =>
        /\ loaded.status = "ok"
        /\ Children(loaded.fs, d) = Children(fs, d)

\* Following record_length from offset p of block b ends exactly at bsz.
RECURSIVE TiledFrom(_, _, _)
TiledFrom(b, p, bsz) ==
  IF p = bsz THEN TRUE
  ELSE IF p + 8 > bsz THEN FALSE
  ELSE LET rl == Word16At(b, p + 4)
       IN rl >= 8 /\ p + rl <= bsz /\ TiledFrom(b, p + rl, bsz)

\* The directory payloads Store emits, each a sequence of blocks.
EmittedPayloads ==
  {stored.rootPayload}
  \cup {stored.dirPayload[i] : i \in {j \in 1..Len(stored.all) : stored.all[j].IsDir}}

\* C5: in every directory payload Store emits, each block is exactly tiled by
\* its entries: from offset 0, the record lengths sum to the block size.
C5_BlocksTiled ==
  stored.status = "ok" =>
    \A pay \in EmittedPayloads :
      \A k \in 1..Len(pay) : TiledFrom(pay[k], 0, stored.bsz)

\* C6: Load terminates on an image whose directory entries form a cycle and
\* returns a tree without error.
C6_CyclicImageLoads ==
  (relinked /\ loaded # None) => loaded.status = "ok"

\* Byte k (1-based) of the 60 bytes of a block-pointer array.
BlockArrayByte(blk, k) == (blk[((k - 1) \div 4) + 1] \div (256 ^ ((k - 1) % 4))) % 256

Symlinks == {p \in DOMAIN fs : Kind(fs[p]) = ModeLink}

\* C7: a symlink with a target of L bytes is stored inline when L <= 60 (no
\* data blocks, the target bytes in the block-pointer array, size L) and
\* externally when L >= 61 (ceil(L / block size) data blocks, size L).
C7_SymlinkStorage ==
  stored.status = "ok" =>
    \A p \in Symlinks :
      LET L == Len(fs[p].Target) IN
      /\ InodeOf(p).Size = L
      /\ BitAnd(InodeOf(p).Mode, 61440) = modeIFLNK
      /\ L <= 60 =>
           /\ PlanOf(p).data = <<>>
           /\ countPtr(PlanOf(p)) = 0
           /\ InodeOf(p).Blocks = 0
           /\ \A k \in 1..60 :
                BlockArrayByte(InodeOf(p).Block, k) = IF k <= L THEN fs[p].Target[k] ELSE 0
      /\ L >= 61 =>
           /\ Len(PlanOf(p).data) = (L + stored.bsz - 1) \div stored.bsz
           /\ L = 61 => Len(PlanOf(p).data) = 1
           /\ \A k \in 1..Min(12, Len(PlanOf(p).data)) :
                InodeOf(p).Block[k] = PlanOf(p).data[k]

\* A stored tree holding a symlink of 60 bytes and one of 61.
C7_Witness ==
  /\ stored.status = "ok"
  /\ \E p \in Symlinks : Len(fs[p].Target) = 60
  /\ \E p \in Symlinks : Len(fs[p].Target) = 61

\* C8: every symlink comes back from Load(Store(tree, bs)) as a symlink at
\* the same path with the same target, whatever the length of the target.
C8_SymlinkRoundTrip ==
  RoundTrip =>
    \A p \in Symlinks :
      /\ CameBack(p)
      /\ Kind(loaded.fs[p]) = ModeLink
      /\ loaded.fs[p].Target = fs[p].Target

\* C9: with P pointers per block, a node of n <= 12 data blocks gets no
\* pointer block; 13 <= n <= 12+P gets exactly the single-indirect block;
\* n = 12+P+1 gets that, a double-indirect root and one level-1 block; the
\* double-indirect level holds ceil(min(n-12-P, P*P)/P) level-1 blocks; the
\* triple-indirect level is used only when n > 12+P+P*P.
C9_IndirectCapacity ==
  planned.status = "planned" =>
    LET n == planned.n
        P == planned.ptrsPer
        pl == planned.pl
        over == IF n - 12 - P < P * P THEN n - 12 - P ELSE P * P
    IN /\ n <= 12 => planned.ptrBlocks = 0
       /\ (13 <= n /\ n <= 12 + P) =>
            planned.ptrBlocks = 1 /\ pl.ind1 = -1
       /\ n = 12 + P + 1 =>
            /\ planned.ptrBlocks = 3
            /\ pl.ind1 = -1 /\ pl.ind2Root = -1 /\ Len(pl.ind2L1) = 1
       /\ n > 12 + P =>
            /\ pl.ind1 = -1 /\ pl.ind2Root = -1
            /\ Len(pl.ind2L1) = (over + P - 1) \div P
       /\ n <= 12 + P => pl.ind2Root = 0 /\ pl.ind2L1 = <<>>
       /\ (pl.ind3Root # 0 \/ pl.ind3L2 # <<>> \/ pl.ind3L1 # <<>>) <=> n > 12 + P + P * P

\* The planner ran on the first block count that opens the double-indirect
\* level.
C9_Witness ==
  planned.status = "planned" /\ planned.n = 12 + planned.ptrsPer + 1

\* The directories of the tree that are children of directory d.
ChildDirs(d) == {p \in Children(fs, d) : Kind(fs[p]) = ModeDir}

\* C10: every directory inode Store writes, the root's included, has link
\* count 2 + the number of its immediate children that are directories.
C10_DirLinkCount ==
  stored.status = "ok" =>
    /\ stored.img.inodes[2].LinksCount = 2 + Cardinality(ChildDirs(SlashStr))
    /\ \A d \in DOMAIN fs \ {SlashStr} :
         Kind(fs[d]) = ModeDir =>
           InodeOf(d).LinksCount = 2 + Cardinality(ChildDirs(d))

\* The non-root paths of the tree, and the inode number Store gave to p.
NonRoot == DOMAIN fs \ {SlashStr}
InodeNumberOf(p) == stored.all[IndexOf(p)].Inode

\* C11: Store gives the N non-root nodes pairwise distinct inode numbers,
\* exactly 3..N+2, and every directory a smaller inode number than every node
\* that is not a directory.
C11_InodeNumbering ==
  stored.status = "ok" =>
    /\ \A p, q \in NonRoot : p # q => InodeNumberOf(p) # InodeNumberOf(q)
    /\ {InodeNumberOf(p) : p \in NonRoot} = 3..(Cardinality(NonRoot) + 2)
    /\ \A p, q \in NonRoot :
         (Kind(fs[p]) = ModeDir /\ Kind(fs[q]) # ModeDir) =>
           InodeNumberOf(p) < InodeNumberOf(q)

\* The data blocks Store gave to the payload of path p.
DataBlocksOf(p) == {PlanOf(p).data[k] : k \in 1..Len(PlanOf(p).data)}

\* C12: the root's payload blocks are the first after the reserved prefix,
\* the payload blocks of every other directory lie below the data blocks of
\* every node that is not a directory, and the nodes that are not directories
\* get their blocks in ascending path order.
C12_AllocationOrder ==
  stored.status = "ok" =>
    /\ \A k \in 1..Len(stored.rootData) :
         stored.rootData[k] = stored.firstDataBlk + k - 1
    /\ \A d, q \in NonRoot :
         (Kind(fs[d]) = ModeDir /\ Kind(fs[q]) # ModeDir) =>
           \A a \in DataBlocksOf(d), b \in DataBlocksOf(q) : a < b
    /\ \A p, q \in NonRoot :
         (Kind(fs[p]) # ModeDir /\ Kind(fs[q]) # ModeDir /\ StrLess(p, q)) =>
           \A a \in DataBlocksOf(p), b \in DataBlocksOf(q) : a < b

\* C12, amended: the root's payload blocks are the first after the reserved
\* prefix, and every other node, directory or not, gets its data blocks in
\* ascending path order.
C12_PathOrder ==
  stored.status = "ok" =>
    /\ \A k \in 1..Len(stored.rootData) :
         stored.rootData[k] = stored.firstDataBlk + k - 1
    /\ \A p, q \in NonRoot :
         StrLess(p, q) =>
           \A a \in DataBlocksOf(p), b \in DataBlocksOf(q) : a < b

\* A stored tree in which a directory's payload block lies above the data
\* block of a node that is not a directory.
C12_Witness ==
  /\ stored.status = "ok"
  /\ \E d, q \in NonRoot :
       /\ Kind(fs[d]) = ModeDir /\ Kind(fs[q]) # ModeDir
       /\ \E a \in DataBlocksOf(d), b \in DataBlocksOf(q) : a > b

\* C13: when the blocks a tree needs are more than the 8 * block size that
\* the one-block bitmap describes, Store returns an error and emits no image;
\* it does not crash.
C13_TooManyBlocks ==
  (planned.status = "allocated" /\ planned.totalBlocks > 8 * planned.bsz) =>
    planned.result = "error"

\* Store returned an error before it wrote anything: no image exists.
Rejected == stored.status = "error" /\ "img" \notin DOMAIN stored

\* C14: Store returns an error, with nothing written, for every block size
\* outside {1024, 2048, 4096}, and does not fail because of the block size
\* for 1024, 2048 and 4096.
C14_BlockSizeRejected ==
  stored # None =>
    /\ stored.blockSize \notin {1024, 2048, 4096} => Rejected
    /\ stored.blockSize \in {1024, 2048, 4096} => stored.status # "error"

\* C14, amended: Store returns an error, with nothing written, for every
\* block size outside {0, 1024, 2048, 4096}; it does not fail because of the
\* block size for 0, 1024, 2048 and 4096, and 0 selects the default block
\* size 1024.
C14_BlockSizeDefault ==
  stored # None =>
    /\ stored.blockSize \notin {0, 1024, 2048, 4096} => Rejected
    /\ stored.blockSize \in {0, 1024, 2048, 4096} => stored.status # "error"
    /\ (stored.blockSize = 0 /\ stored.status = "ok") =>
         /\ stored.bsz = defaultBlockSize
         /\ stored.img.sb.LogBlockSize = 0
         /\ stored.img.len = stored.totalBlocks * 1024

\* Store was called with block size 0 and wrote an image.
C14_Witness ==
  stored # None /\ stored.blockSize = 0 /\ stored.status = "ok" /\ stored.img.len > 0

\* The inode numbers named by the entries of the root directory's first
\* block, "." and ".." left out: entries Load follows.
RootEntryInodes ==
  LET blk == stored.img.blocks[stored.rootData[1]]
  IN {Word32At(blk, p) : p \in {q \in entryOffsets(blk, 0, stored.bsz) :
                                  ByteAt(blk, q + 9) # 46}}

\* Load returned an error and no tree.
LoadFailed == loaded.status = "error" /\ "fs" \notin DOMAIN loaded

\* C15: Load fails with an error whenever a directory entry it follows names
\* an inode number greater than the superblock's inode count, even when the
\* record of that number still lies inside the buffer.
C15_InodeOutOfRange ==
  (/\ stored.status = "ok"
   /\ damage \in {"none", "inode"}
   /\ loaded # None
   /\ \E n \in RootEntryInodes : n > stored.img.sb.InodesCount)
  => LoadFailed

\* Block pointer p names a block that ends past the end of the buffer.
PastEnd(p) == p # 0 /\ p * stored.bsz + stored.bsz > stored.img.len

\* C16: Load returns an error, and no tree, whenever a nonzero pointer in the
\* block list of an inode it visits names a block that ends past the end of
\* the buffer.
C16_PointerPastEnd ==
  (/\ stored.status = "ok"
   /\ damage \in {"none", "pointer"}
   /\ loaded # None
   /\ \E n \in ResolvedInodes(stored), k \in 1..15 :
        PastEnd(stored.img.inodes[n].Block[k]))
  => LoadFailed

\* C19: an image with revision level 0 and inode size field 0, all else as
\* Store wrote it, is not rejected by Load because of its revision.
C19_RevisionZeroLoads ==
  (/\ stored.status = "ok"
   /\ damage = "revision"
   /\ stored.img.sb.RevLevel = 0 /\ stored.img.sb.InodeSize = 0
   /\ loaded # None)
  => loaded.status # "error"

\* The superblock of the image has a magic other than 0xEF53, or the buffer
\* is shorter than 2048 bytes.
BadMagicOrShort ==
  stored.status = "ok" /\ (stored.img.sb.Magic # ext2Magic \/ stored.img.len < 2048)

\* C20: Load returns an error and no tree for every buffer whose magic field
\* is not 0xEF53, whatever the other fields hold, and for every buffer
\* shorter than 2048 bytes.
C20_BadMagicOrShort ==
  (BadMagicOrShort /\ loaded # None) => LoadFailed

\* Load ran on an image with a wrong magic whose revision level is still 1.
C20_Witness ==
  /\ stored.status = "ok" /\ loaded # None
  /\ stored.img.sb.Magic # ext2Magic /\ stored.img.sb.RevLevel = 1
  /\ stored.img.len >= 2048
  /\ LoadFailed

\* The elements of a sequence of block numbers.
Range(q) == {q[k] : k \in 1..Len(q)}

\* The pointer blocks a plan holds once it is allocated.
PointerBlocksOf(pl) ==
  ({pl.ind1, pl.ind2Root, pl.ind3Root} \ {0})
  \cup Range(pl.ind2L1) \cup Range(pl.ind3L2) \cup Range(pl.ind3L1)

\* Every block Store assigned to data, directory payload or pointers.
AssignedBlocks ==
  Range(stored.rootData) \cup PointerBlocksOf(stored.rootPlan)
  \cup UNION {Range(stored.filePlan[i].data) \cup PointerBlocksOf(stored.filePlan[i]) :
                i \in 1..Len(stored.filePlan)}

ReservedBlocks ==
  0..(stored.img.gd.InodeTable
        + ceilDiv(stored.img.sb.InodesCount * inodeSize, stored.bsz) - 1)

C21_RootIsDirectory ==
  SlashStr \in DOMAIN fs /\ Kind(fs[SlashStr]) = ModeDir

\* C22: after any sequence of memfs calls, every node other than "/" has its
\* parent path in the tree.
C22_ParentPresent ==
  \A p \in DOMAIN fs \ {SlashStr} : pathDir(p) \in DOMAIN fs

\* Remove was called on a node that had a descendant, and both are gone; a
\* node other than the root is still in the tree.
C22_Witness ==
  /\ last.status = "removed" /\ last.ok
  /\ \E q \in DOMAIN last.before :
       /\ q # clean(last.p) /\ HasPrefix(q, clean(last.p) \o SlashStr)
       /\ q \notin DOMAIN fs /\ clean(last.p) \notin DOMAIN fs
  /\ \E q \in DOMAIN fs : Len(Split(q)) = 2 /\ q # SlashStr

\* Path k is the node at path p or lies below it.
AtOrBelow(k, p) ==
  k = p \/ (Len(k) > Len(p) + 1 /\ SubSeq(k, 1, Len(p) + 1) = p \o SlashStr)

\* C30: Remove(p), for p that does not clean to "/", deletes the node at
\* clean(p) and the nodes below it, leaves every other node as it was (a
\* sibling whose name begins with the same letters too), and returns nil
\* whether p was there or not; Remove of a path that cleans to "/" returns an
\* error and leaves the tree as it was.
C30_RemoveFrame ==
  last.status = "removed" =>
    IF clean(last.p) = SlashStr
    THEN ~last.ok /\ fs = last.before
    ELSE /\ last.ok
         /\ DOMAIN fs = {k \in DOMAIN last.before : ~AtOrBelow(k, clean(last.p))}
         /\ \A k \in DOMAIN fs : fs[k] = last.before[k]

\* Remove was called on /a in a tree that held /a, /a/b and /ab.
C30_Witness ==
  /\ last.status = "removed"
  /\ clean(last.p) = <<47, 97>>
  /\ {<<47, 97>>, <<47, 97, 47, 98>>, <<47, 97, 98>>} \subseteq DOMAIN last.before
  /\ <<47, 97, 98>> \in DOMAIN fs


\* The image of a run with the fields that hold the clock reading taken from
\* another run: the superblock's two times and the root inode's three.
WithTimesOf(img, other) ==
  [img EXCEPT !.sb.MTime = other.sb.MTime, !.sb.WTime = other.sb.WTime,
              !.inodes[2].ATime = other.inodes[2].ATime,
              !.inodes[2].CTime = other.inodes[2].CTime,
              !.inodes[2].MTime = other.inodes[2].MTime]

\* C23: two runs of Store on the same tree with the same block size give every
\* node the same inode number and the same data and pointer blocks, whatever
\* order each run's range loop gave the keys in, and the two images are equal
\* apart from the clock-derived times of the superblock and the root inode.
C23_Deterministic ==
  last.status = "again" =>
    /\ last.run.status = "ok"
    /\ last.run.all = stored.all
    /\ last.run.filePlan = stored.filePlan
    /\ last.run.rootData = stored.rootData
    /\ last.run.rootPlan = stored.rootPlan
    /\ WithTimesOf(last.run.img, stored.img) = stored.img

\* The two runs were given different orders and different clock readings, on a
\* tree with a directory and a node inside it that is not a directory.
C23_Witness ==
  /\ last.status = "again"
  /\ last.order # stored.order
  /\ last.run.img.sb.WTime # stored.img.sb.WTime
  /\ \E i, j \in 1..Len(stored.all) :
       /\ stored.all[i].IsDir
       /\ pathDir(stored.all[j].Path) = stored.all[i].Path
       /\ ~stored.all[j].IsDir


EntriesOfBlock(b, bsz) ==
  LET offs == entryOffsets(b, 0, bsz)
      at(k) == CHOOSE p \in offs : Cardinality({q \in offs : q < p}) = k - 1
  IN [k \in 1..Cardinality(offs) |->
        [ino |-> Word32At(b, at(k)), nameLen |-> ByteAt(b, at(k) + 7),
         nm |-> [i \in 1..ByteAt(b, at(k) + 7) |-> ByteAt(b, at(k) + 8 + i)]]]

\* The entries a payload lists, block after block.
RECURSIVE ListedEntries(_, _, _)
ListedEntries(payload, k, bsz) ==
  IF k > Len(payload) THEN <<>>
  ELSE EntriesOfBlock(payload[k], bsz) \o ListedEntries(payload, k + 1, bsz)

\* What the payload of directory d is to list, by the tree: ".", "..", then
\* the immediate children of d by ascending name.
ExpectedEntries(d, selfIno, parIno) ==
  LET names == SortStrings({pathBase(p) : p \in Children(fs, d)})
  IN <<[ino |-> selfIno, nameLen |-> 1, nm |-> DotStr],
       [ino |-> parIno, nameLen |-> 2, nm |-> DotDotStr]>>
     \o [k \in 1..Len(names) |->
           [ino |-> InodeNumberOf(pathJoin(d, names[k])),
            nameLen |-> Len(names[k]), nm |-> names[k]]]

\* The inode number ".." of directory d is to carry.
ParentInodeOf(d) ==
  IF d = SlashStr \/ pathDir(d) = SlashStr THEN 2 ELSE InodeNumberOf(pathDir(d))

\* C25: every directory payload Store emits lists "." with the directory's own
\* inode number, ".." with the parent directory's inode number (2 for the root
\* and for the root's children), then one entry per immediate child in
\* ascending name order, each with the child's inode number and its name with
\* the name's length.
C25_DirEntries ==
  stored.status = "ok" =>
    /\ ListedEntries(stored.rootPayload, 1, stored.bsz) = ExpectedEntries(SlashStr, 2, 2)
    /\ \A i \in 1..Len(stored.all) :
         stored.all[i].IsDir =>
           ListedEntries(stored.dirPayload[i], 1, stored.bsz)
             = ExpectedEntries(stored.all[i].Path, stored.all[i].Inode,
                               ParentInodeOf(stored.all[i].Path))


\* C26: when Load expands an indirect pointer block, at any level, the first
\* zero entry ends the expansion of that block: the blocks found are those
\* found when every entry after a zero entry of the same block is zero too,
\* at level 1 they are the entries before the first zero, and a zero root
\* gives no block.
C26_ZeroTerminated ==
  planned.status = "expanded" =>
    /\ planned.err = ""
    /\ planned.list = planned.cut
    /\ planned.root = 0 => planned.list = <<>>
    /\ (planned.root # 0 /\ planned.level = 1) =>
         planned.list = SelectSeq(cutAfterZero(planned.words[planned.root]),
                                  LAMBDA x : x # 0)

\* A double-indirect root was expanded whose first entry names a block that
\* starts with a zero entry followed by a nonzero one.
C26_Witness ==
  /\ planned.status = "expanded"
  /\ planned.level = 2
  /\ planned.root = 4
  /\ planned.words[4][1] = 6 /\ planned.words[4][2] = 5
  /\ planned.words[6][1] = 0 /\ planned.words[6][2] # 0
  /\ planned.words[5][1] # 0
  /\ planned.list # <<>>


\* The ext2 file-type tag of a kind given by its type bits.
TagOfKind(k) ==
  IF k = modeIFREG THEN 1 ELSE IF k = modeIFDIR THEN 2 ELSE IF k = modeIFCHR THEN 3
  ELSE IF k = modeIFBLK THEN 4 ELSE IF k = modeIFIFO THEN 5
  ELSE IF k = modeIFLNK THEN 7 ELSE 0

\* The payload Store emitted for directory d, and the file-type tags of the
\* entries in it that carry the name of p.
PayloadOf(d) ==
  IF d = SlashStr THEN stored.rootPayload ELSE stored.dirPayload[IndexOf(d)]

TagsOf(p) ==
  UNION {{ByteAt(PayloadOf(pathDir(p))[k], off + 8) :
            off \in {o \in entryOffsets(PayloadOf(pathDir(p))[k], 0, stored.bsz) :
                       /\ ByteAt(PayloadOf(pathDir(p))[k], o + 7) = Len(pathBase(p))
                       /\ \A i \in 1..Len(pathBase(p)) :
                            ByteAt(PayloadOf(pathDir(p))[k], o + 8 + i) = pathBase(p)[i]}} :
         k \in 1..Len(PayloadOf(pathDir(p)))}

\* C27: for every entry but the root, the type bits of the inode Store writes
\* are the entry's own type bits, and the file-type tag of its entry in the
\* parent's payload is the ext2 tag of that kind, which is also the kind Load
\* takes from the written inode.
C27_KindAgreement ==
  stored.status = "ok" =>
    \A p \in NonRoot :
      /\ BitAnd(InodeOf(p).Mode, 61440) = Kind(fs[p])
      /\ \A t \in TagsOf(p) :
           t = TagOfKind(Kind(fs[p])) /\ t = TagOfKind(BitAnd(InodeOf(p).Mode, 61440))


\* The pointer blocks of a plan, one element for each block handed out.
PointerListOf(pl) ==
  SelectSeq(<<pl.ind1, pl.ind2Root>>, LAMBDA x : x # 0) \o pl.ind2L1
  \o SelectSeq(<<pl.ind3Root>>, LAMBDA x : x # 0) \o pl.ind3L2 \o pl.ind3L1

\* Every block number Store handed out, owner after owner: the root's payload
\* and pointer blocks, then each node's data and pointer blocks.
RECURSIVE HandedOutFrom(_)
HandedOutFrom(i) ==
  IF i > Len(stored.filePlan) THEN <<>>
  ELSE stored.filePlan[i].data \o PointerListOf(stored.filePlan[i]) \o HandedOutFrom(i + 1)

HandedOut == stored.rootData \o PointerListOf(stored.rootPlan) \o HandedOutFrom(1)

\* C28: in every image Store produces, the block numbers given to the root's
\* payload, to the nodes' data and to the pointer blocks are pairwise distinct,
\* none lies before the first block after the inode table, and with the
\* reserved blocks before it they are exactly 0..blocks_count-1.
C28_Partition ==
  stored.status = "ok" =>
    /\ \A i, j \in 1..Len(HandedOut) : i # j => HandedOut[i] # HandedOut[j]
    /\ Range(HandedOut) = AssignedBlocks
    /\ \A b \in AssignedBlocks : b >= stored.firstDataBlk /\ b \notin ReservedBlocks
    /\ ReservedBlocks = 0..(stored.firstDataBlk - 1)
    /\ ReservedBlocks \cup AssignedBlocks = 0..(stored.img.sb.BlocksCount - 1)

\* An image of a tree with a directory below the root that has a payload, a
\* node of thirteen data blocks with its single-indirect block, and another
\* node with data blocks.
C28_Witness ==
  /\ stored.status = "ok"
  /\ \E p \in NonRoot : Kind(fs[p]) = ModeDir /\ DataBlocksOf(p) # {}
  /\ \E p, q \in NonRoot :
       /\ p # q
       /\ PlanOf(p).ind1 > 0 /\ Len(PlanOf(p).data) = 13
       /\ Kind(fs[q]) # ModeDir /\ DataBlocksOf(q) # {}


\* C29: every node but the root that Load(Store(tree, bs)) returns is a node
\* of the tree and has the tree node's uid and gid modulo 65536: an id below
\* 65536 comes back as it was, an id of 65536 or more does not.
C29_OwnerIds ==
  (RoundTrip /\ loaded.status = "ok") =>
    \A p \in DOMAIN loaded.fs \ {SlashStr} :
      /\ p \in DOMAIN fs
      /\ loaded.fs[p].UID = fs[p].UID % 65536
      /\ loaded.fs[p].GID = fs[p].GID % 65536
      /\ fs[p].UID < 65536 <=> loaded.fs[p].UID = fs[p].UID
      /\ fs[p].GID < 65536 <=> loaded.fs[p].GID = fs[p].GID

\* A node with uid 70000 and gid 1000 came back with uid 4464 and gid 1000.
C29_Witness ==
  /\ RoundTrip /\ loaded.status = "ok"
  /\ \E p \in DOMAIN loaded.fs \ {SlashStr} :
       /\ fs[p].UID = 70000 /\ loaded.fs[p].UID = 4464
       /\ fs[p].GID = 1000 /\ loaded.fs[p].GID = 1000

====
